---------------------------- MODULE Spec2Model ----------------------------
(***************************************************************************)
(* A model of the XCMP queue pallet                                        *)
(* (cumulus/pallets/xcmp-queue/src/lib.rs): the queue configuration, the   *)
(* outbound channel registry with its page and signal stores, the delivery *)
(* fee factors, the inbound suspension tracker, and the operations that    *)
(* change them.                                                            *)
(***************************************************************************)
EXTENDS Integers, Sequences, FiniteSets, TLC

VARIABLES
    T,                      \* the runtime's Config constants, fixed at genesis
    QueueConfig,            \* StorageValue<QueueConfigData>
    InboundXcmpSuspended,   \* StorageValue<BoundedBTreeSet<ParaId>>
    OutboundXcmpStatus,     \* StorageValue<BoundedVec<OutboundChannelDetails>>
    OutboundXcmpMessages,   \* StorageDoubleMap (ParaId, u16) -> page
    SignalMessages,         \* StorageMap ParaId -> page
    DeliveryFeeFactor,      \* StorageMap ParaId -> FixedU128
    ret,                    \* the last call: its name, its inputs, what it returned
    fair                    \* bookkeeping over successive take_outbound_messages calls

vars == <<T, QueueConfig, InboundXcmpSuspended, OutboundXcmpStatus, OutboundXcmpMessages,
          SignalMessages, DeliveryFeeFactor, ret, fair>>

queueVars == <<InboundXcmpSuspended, OutboundXcmpStatus, OutboundXcmpMessages,
               SignalMessages, DeliveryFeeFactor>>

-----------------------------------------------------------------------------
(* Small helpers on sequences and sets.                                    *)

Min(a, b) == IF a <= b THEN a ELSE b

Max(a, b) == IF a >= b THEN a ELSE b

Range(s) == {s[i] : i \in 1..Len(s)}

RECURSIVE SumOver(_, _)
SumOver(S, f) ==
    IF S = {} THEN 0
    ELSE LET x == CHOOSE y \in S : TRUE IN f[x] + SumOver(S \ {x}, f)

-----------------------------------------------------------------------------
(* Queue configuration.                                                    *)

\* QueueConfigData::default
DefaultQueueConfig ==
    [suspend_threshold |-> 32, drop_threshold |-> 48, resume_threshold |-> 8]

\* QueueConfigData::validate: TRUE for Ok(()), FALSE for Err(BadQueueConfig)
validate(data) ==
    /\ data.resume_threshold < data.suspend_threshold
    /\ data.suspend_threshold <= data.drop_threshold
    /\ data.resume_threshold > 0

\* A variant of try_mutate that stores the closure's write whatever it returns.
try_mutate_config_unchecked(data) == data

\* QueueConfig::try_mutate(|data| { data.<field> = new; data.validate() }):
\* the new value is stored only when the closure returns Ok.
try_mutate_config(data) == IF validate(data) THEN data ELSE QueueConfig

\* The three root-only extrinsics; origin is "Root" or "Signed".
update_threshold(fn, field, origin, new) ==
    LET data == [QueueConfig EXCEPT ![field] = new] IN
    /\ QueueConfig' = IF origin = "Root" THEN try_mutate_config(data) ELSE QueueConfig
    /\ ret' = [op |-> fn, origin |-> origin, new |-> new,
               result |-> IF origin # "Root" THEN "BadOrigin"
                          ELSE IF validate(data) THEN "Ok" ELSE "BadQueueConfig"]
    /\ UNCHANGED <<T, queueVars>>

update_suspend_threshold(origin, new) ==
    update_threshold("update_suspend_threshold", "suspend_threshold", origin, new)

update_drop_threshold(origin, new) ==
    update_threshold("update_drop_threshold", "drop_threshold", origin, new)

update_resume_threshold(origin, new) ==
    update_threshold("update_resume_threshold", "resume_threshold", origin, new)

-----------------------------------------------------------------------------
(* Runtime configuration of the pallet (Config's #[pallet::constant]s).    *)

\* T::MaxActiveOutboundChannels::get()
MaxActiveOutboundChannels == T.MaxActiveOutboundChannels

\* T::MaxInboundSuspended::get()
MaxInboundSuspended == T.MaxInboundSuspended

\* T::MaxPageSize::get(), in bytes
MaxPageSize == T.MaxPageSize

\* delivery_fee_constants::THRESHOLD_FACTOR
THRESHOLD_FACTOR == 2

\* sp_core::MAX_POSSIBLE_ALLOCATION, the fallback for a missing messaging state
MAX_POSSIBLE_ALLOCATION == 33554432

-----------------------------------------------------------------------------
(* Wire encodings.                                                         *)

Formats == {"ConcatenatedVersionedXcm", "ConcatenatedEncodedBlob", "Signals"}

\* XcmpMessageFormat::encode: a one-byte variant index
EncodeFormat(format) ==
    CASE format = "ConcatenatedVersionedXcm" -> <<0>>
      [] format = "ConcatenatedEncodedBlob" -> <<1>>
      [] format = "Signals" -> <<2>>

\* XcmpMessageFormat::decode(&mut &page[..]): the format, or "Err"
DecodeFormat(page) ==
    IF Len(page) = 0 THEN "Err"
    ELSE CASE page[1] = 0 -> "ConcatenatedVersionedXcm"
           [] page[1] = 1 -> "ConcatenatedEncodedBlob"
           [] page[1] = 2 -> "Signals"
           [] OTHER -> "Err"

\* ChannelSignal::encode (derived): a one-byte variant index
EncodeSignal(signal) == IF signal = "Suspend" THEN <<0>> ELSE <<1>>

\* fragment.encode() for a Vec<u8> fragment: the compact length and then the bytes.
\* The compact length is one byte (len << 2) below 64 bytes and two bytes,
\* ((len << 2) | 1) in little endian, below 16384 bytes.
EncodeFragment(fragment) ==
    IF Len(fragment) < 64 THEN <<4 * Len(fragment)>> \o fragment
    ELSE <<(4 * Len(fragment) + 1) % 256, (4 * Len(fragment) + 1) \div 256>> \o fragment

-----------------------------------------------------------------------------
(* Storage maps with a ValueQuery default.                                 *)

StorageGet(map, key) == IF key \in DOMAIN map THEN map[key] ELSE <<>>

StorageInsert(map, key, value) ==
    [k \in DOMAIN map \cup {key} |-> IF k = key THEN value ELSE map[k]]

StorageRemove(map, key) == [k \in DOMAIN map \ {key} |-> map[k]]

StorageRemoveAll(map, keys) == [k \in DOMAIN map \ keys |-> map[k]]

EmptyMap == [k \in {} |-> <<>>]

-----------------------------------------------------------------------------
(* Outbound channel records.                                               *)

\* OutboundChannelDetails::new
OutboundChannelDetails_new(recipient) ==
    [recipient |-> recipient, state |-> "Ok", signals_exist |-> FALSE,
     first_index |-> 0, last_index |-> 0]

\* s.iter().position(|item| item.recipient == target), 0 for None
Position(s, target) ==
    IF \E i \in 1..Len(s) : s[i].recipient = target
    THEN CHOOSE i \in 1..Len(s) :
            /\ s[i].recipient = target
            /\ \A j \in 1..(i - 1) : s[j].recipient # target
    ELSE 0

\* A push that ignores the bound of the vector
try_push_unbounded(s, item) == <<Append(s, item)>>

\* BoundedVec::try_push: the vector alone in a sequence, or <<>> when it is full
try_push(s, item) ==
    IF Len(s) >= MaxActiveOutboundChannels THEN <<>> ELSE <<Append(s, item)>>

-----------------------------------------------------------------------------
(* Fee controller (FeeTracker), in hundredths: 100 stands for 1.0.         *)

\* FeeTracker::MIN_FEE_FACTOR
MinFeeFactor == 100

\* Saturation point of the factor in the model
MaxFeeFactor == 110

\* A storage default left at FixedU128::default()
DefaultFeeFactorZero == MinFeeFactor - MinFeeFactor

\* The factor DeliveryFeeFactor yields for a key never written (GetMinFeeFactor)
DefaultFeeFactor == MinFeeFactor

\* FeeTracker::set_fee_factor of the pallet: DeliveryFeeFactor::set(id, val)
set_fee_factor(fee, id, val) == [fee EXCEPT ![id] = val]

\* FeeTracker::increase_fee_factor: multiply by the exponential step 1.05
increase_fee_factor(fee, id) ==
    set_fee_factor(fee, id, Min(MaxFeeFactor, (fee[id] * 105) \div 100))

\* FeeTracker::decrease_fee_factor: divide by the step, floored at the minimum
decrease_fee_factor(fee, id) ==
    set_fee_factor(fee, id, Max(MinFeeFactor, (fee[id] * 100) \div 105))

-----------------------------------------------------------------------------
(* Outbound page writer: Pallet::send_fragment.                            *)

\* Cap on page indices explored (the code's indices are u16)
MaxIndex == 3

\* Option<T>: None is the empty sequence, Some(x) the sequence of x alone
None == <<>>

Some(x) == <<x>>

\* Result<T, E>
Ok(value) == [ok |-> TRUE, value |-> value]

Err(error) == [ok |-> FALSE, err |-> error]

\* A size check that leaves no room for the format header
size_check_no_header(size_to_check, max_message_size) ==
    size_to_check + 1 <= max_message_size

\* The size check on entry: Err(TooBig) when it does not pass
size_check_accepts(size_to_check, max_message_size) ==
    size_to_check <= max_message_size

\* A closure that puts the fragment in front of what the page holds
append_in_front(page, format, encoded_fragment, max_message_size) ==
    IF DecodeFormat(page) # format THEN None
    ELSE IF Len(page) + Len(encoded_fragment) > max_message_size THEN None
    ELSE Some(<<Head(page)>> \o encoded_fragment \o Tail(page))

\* The closure handed to OutboundXcmpMessages::try_mutate on the last page:
\* the page as extended, or None for Err (nothing is written)
append_to_last_page(page, format, encoded_fragment, max_message_size) ==
    IF DecodeFormat(page) # format THEN None
    ELSE IF Len(page) + Len(encoded_fragment) > max_message_size THEN None
    ELSE IF Len(page) + Len(encoded_fragment) > MaxPageSize THEN None
    ELSE Some(page \o encoded_fragment)

\* A new page that leaves the format header out
new_page_without_format(format, encoded_fragment) == encoded_fragment

\* let mut new_page = format.encode(); new_page.extend_from_slice(&encoded_fragment)
new_page(format, encoded_fragment) == EncodeFormat(format) \o encoded_fragment

\* first_index and last_index are u16: their arithmetic is modulo 2^16 in a build
\* without overflow checks and panics in a build with them
U16 == 2 ^ 16

\* a * b for a, b < 2^16 in 16-bit halves: the product is hi * 2^16 + lo.  No
\* intermediate value reaches 2^31.
mul_u16(a, b) ==
    LET upper == (a \div 256) * b
        lower == (a % 256) * b
        rest == (upper % 256) * 256 + lower
    IN [hi |-> (upper \div 256) + (rest \div U16), lo |-> rest % U16]

\* number_of_pages.saturating_sub(1) * max_message_size as u32 + last_page_size
\* as u32, computed on u32 in 16-bit halves: the wrapped value is hi * 2^16 + lo,
\* and overflow tells that the product or the sum left the u32 range, where a
\* build with overflow checks panics.  number_of_pages comes from u16 indices.
total_size_u32(number_of_pages, max_message_size, last_page_size) ==
    LET pages == Max(number_of_pages - 1, 0)
        upper == mul_u16(pages, max_message_size \div U16)
        lower == mul_u16(pages, max_message_size % U16)
        middle == upper.lo + lower.hi
        low == lower.lo + (last_page_size % U16)
        high == (middle % U16) + (last_page_size \div U16) + (low \div U16)
    IN [hi |-> high % U16, lo |-> low % U16,
        overflow |-> upper.hi > 0 \/ middle >= U16 \/ high >= U16]

\* An estimate that counts the last page only
total_size_last_only(number_of_pages, max_message_size, last_page_size) ==
    last_page_size

\* The conservative estimate: all pages but the last count as full; the value the
\* wrapping u32 arithmetic leaves
total_size(number_of_pages, max_message_size, last_page_size) ==
    LET size == total_size_u32(number_of_pages, max_message_size, last_page_size)
    IN size.hi * U16 + size.lo

\* Whether the estimate leaves the u32 range
total_size_overflows(number_of_pages, max_message_size, last_page_size) ==
    total_size_u32(number_of_pages, max_message_size, last_page_size).overflow

\* A write that decays the factor where it should escalate it
fee_after_write_decays(fee, recipient, estimate, max_total_size) ==
    IF estimate > max_total_size \div THRESHOLD_FACTOR
    THEN [fee EXCEPT ![recipient] = fee[recipient] - 1]
    ELSE fee

\* A write that escalates only a factor that is still at its initial value
fee_after_write_first_only(fee, recipient, estimate, max_total_size) ==
    IF estimate > max_total_size \div THRESHOLD_FACTOR /\ fee[recipient] = DefaultFeeFactor
    THEN increase_fee_factor(fee, recipient)
    ELSE fee

\* The factors after a write with that estimate against the channel's threshold
fee_after_write(fee, recipient, estimate, max_total_size) ==
    IF estimate > max_total_size \div THRESHOLD_FACTOR
    THEN increase_fee_factor(fee, recipient)
    ELSE fee

Unchanged(result) ==
    [result |-> result, status |-> OutboundXcmpStatus,
     messages |-> OutboundXcmpMessages, fee |-> DeliveryFeeFactor,
     overflow |-> FALSE]

\* Pallet::send_fragment on the current storage: what it returns and what it
\* leaves in OutboundXcmpStatus, OutboundXcmpMessages and DeliveryFeeFactor, with
\* the index and size arithmetic wrapping; overflow tells that an index left the
\* u16 range or the size estimate the u32 range, where a build with overflow
\* checks panics instead.
\* channel_info is None or Some([max_message_size, max_total_size]).
send_fragment(recipient, format, fragment, channel_info) ==
    LET encoded_fragment == EncodeFragment(fragment) IN
    IF channel_info = None THEN Unchanged(Err("NoChannel")) ELSE
    LET info == channel_info[1]
        max_message_size == Min(info.max_message_size, MaxPageSize)
        format_size == Len(EncodeFormat(format))
        size_to_check == Len(encoded_fragment) + format_size
    IN
    IF ~size_check_accepts(size_to_check, max_message_size)
    THEN Unchanged(Err("TooBig")) ELSE
    LET found == Position(OutboundXcmpStatus, recipient)
        pushed == try_push(OutboundXcmpStatus, OutboundChannelDetails_new(recipient))
    IN
    IF found = 0 /\ pushed = <<>> THEN Unchanged(Err("TooManyChannels")) ELSE
    LET all_channels == IF found # 0 THEN OutboundXcmpStatus ELSE pushed[1]
        at == IF found # 0 THEN found ELSE Len(all_channels)
        channel_details == all_channels[at]
        have_active == channel_details.last_index > channel_details.first_index
        last_key == <<recipient, channel_details.last_index - 1>>
        appended ==
            IF have_active
            THEN append_to_last_page(StorageGet(OutboundXcmpMessages, last_key),
                                     format, encoded_fragment, max_message_size)
            ELSE None
    IN
    IF appended # None THEN
        LET number_of_pages == channel_details.last_index - channel_details.first_index
            estimate == total_size(number_of_pages, max_message_size, Len(appended[1]))
        IN [result |-> Ok(number_of_pages),
            status |-> OutboundXcmpStatus,
            messages |-> StorageInsert(OutboundXcmpMessages, last_key, appended[1]),
            fee |-> fee_after_write(DeliveryFeeFactor, recipient, estimate,
                                    info.max_total_size),
            overflow |-> total_size_overflows(number_of_pages, max_message_size,
                                              Len(appended[1]))]
    ELSE
        LET page_index == channel_details.last_index
            last_index == (channel_details.last_index + 1) % U16
            page == new_page(format, encoded_fragment)
            number_of_pages == (last_index - channel_details.first_index) % U16
            estimate == total_size(number_of_pages, max_message_size, Len(page))
            overflow == \/ channel_details.last_index + 1 >= U16
                        \/ last_index < channel_details.first_index
        IN
        IF Len(page) > MaxPageSize
        THEN [Unchanged(Err("TooBig")) EXCEPT !.overflow = overflow] ELSE
           [result |-> Ok(number_of_pages),
            status |-> [all_channels EXCEPT ![at].last_index = last_index],
            messages |-> StorageInsert(OutboundXcmpMessages, <<recipient, page_index>>, page),
            fee |-> fee_after_write(DeliveryFeeFactor, recipient, estimate,
                                    info.max_total_size),
            overflow |-> overflow \/ total_size_overflows(number_of_pages,
                                                          max_message_size, Len(page))]

\* The index a write to recipient would give a new page (0 for a new record)
NextPageIndex(recipient) ==
    LET found == Position(OutboundXcmpStatus, recipient) IN
    IF found = 0 THEN 0 ELSE OutboundXcmpStatus[found].last_index

\* The number of data pages queued for recipient, as outbound_channel_state
\* counts them: c.last_index.saturating_sub(c.first_index)
QueuedPages(recipient) ==
    LET found == Position(OutboundXcmpStatus, recipient) IN
    IF found = 0 THEN 0
    ELSE Max(OutboundXcmpStatus[found].last_index
                - OutboundXcmpStatus[found].first_index, 0)

\* A queue long enough for the size estimate to leave the u32 range
LongQueue == 2 ^ 8

\* One call of send_fragment, for page indices up to MaxIndex, at the top of the
\* u16 range and on a queue of LongQueue pages or more; where an index or the size
\* estimate overflows the call wraps or panics
SendFragment(recipient, format, fragment, channel_info) ==
    LET r == send_fragment(recipient, format, fragment, channel_info) IN
    /\ \/ NextPageIndex(recipient) < MaxIndex
       \/ NextPageIndex(recipient) = U16 - 1
       \/ QueuedPages(recipient) >= LongQueue
    /\ \E overflow_checks \in IF r.overflow THEN BOOLEAN ELSE {FALSE} :
        IF overflow_checks
        THEN /\ UNCHANGED <<OutboundXcmpStatus, OutboundXcmpMessages, DeliveryFeeFactor>>
             /\ ret' = [op |-> "send_fragment", recipient |-> recipient, format |-> format,
                        fragment |-> fragment, channel_info |-> channel_info,
                        queued_before |-> QueuedPages(recipient),
                        result |-> Err("Panicked"), panicked |-> TRUE]
        ELSE /\ OutboundXcmpStatus' = r.status
             /\ OutboundXcmpMessages' = r.messages
             /\ DeliveryFeeFactor' = r.fee
             /\ ret' = [op |-> "send_fragment", recipient |-> recipient, format |-> format,
                        fragment |-> fragment, channel_info |-> channel_info,
                        queued_before |-> QueuedPages(recipient), result |-> r.result,
                        panicked |-> FALSE]
    /\ UNCHANGED <<T, QueueConfig, InboundXcmpSuspended, SignalMessages>>

-----------------------------------------------------------------------------
(* Outbound extraction scheduler: XcmpMessageSource::take_outbound_messages *)

\* if page.len() < max_size_now: the page may go out now
fits_now(page, max_size_now) == Len(page) < max_size_now

\* for i in first_index..last_index
IndexRange(first_index, last_index) == first_index .. (last_index - 1)

\* The keys of a channel's pages
PageKeys(para_id, first_index, last_index) ==
    {<<para_id, i>> : i \in IndexRange(first_index, last_index)}

\* A closed channel whose stores are left as they are
close_channel_keeps_pages(acc, i) ==
    [acc EXCEPT !.statuses[i] = OutboundChannelDetails_new(acc.statuses[i].recipient)]

\* ChannelStatus::Closed: swallow the messages and discard the status
close_channel(acc, i) ==
    LET status == acc.statuses[i] IN
    [acc EXCEPT
        !.messages = StorageRemoveAll(@, PageKeys(status.recipient,
                                                  status.first_index, status.last_index)),
        !.signals = IF status.signals_exist THEN StorageRemove(@, status.recipient) ELSE @,
        !.statuses[i] = OutboundChannelDetails_new(status.recipient)]

\* pick_page with the suspension test ahead of the signal test
pick_page_suspension_first(acc, status, max_size_now) ==
    LET para_id == status.recipient IN
    IF status.state = "Suspended" THEN None
    ELSE IF status.signals_exist THEN
        LET page == StorageGet(acc.signals, para_id) IN
        IF fits_now(page, max_size_now)
        THEN Some([page |-> page, signal |-> TRUE, signals_exist |-> FALSE,
                   first_index |-> status.first_index,
                   messages |-> acc.messages,
                   signals |-> StorageRemove(acc.signals, para_id)])
        ELSE None
    ELSE IF status.last_index > status.first_index THEN
        LET page == StorageGet(acc.messages, <<para_id, status.first_index>>) IN
        IF fits_now(page, max_size_now)
        THEN Some([page |-> page, signal |-> FALSE, signals_exist |-> FALSE,
                   first_index |-> status.first_index + 1,
                   messages |-> StorageRemove(acc.messages, <<para_id, status.first_index>>),
                   signals |-> acc.signals])
        ELSE None
    ELSE None

\* The page picked for a channel that is Ready: None for `continue`, or the page
\* with the record's fields and the stores as the pick leaves them
pick_page(acc, status, max_size_now) ==
    LET para_id == status.recipient IN
    IF status.signals_exist THEN
        LET page == StorageGet(acc.signals, para_id) IN
        IF fits_now(page, max_size_now)
        THEN Some([page |-> page, signal |-> TRUE, signals_exist |-> FALSE,
                   first_index |-> status.first_index,
                   messages |-> acc.messages,
                   signals |-> StorageRemove(acc.signals, para_id)])
        ELSE None
    ELSE IF status.state = "Suspended" THEN None
    ELSE IF status.last_index > status.first_index THEN
        LET page == StorageGet(acc.messages, <<para_id, status.first_index>>) IN
        IF fits_now(page, max_size_now)
        THEN Some([page |-> page, signal |-> FALSE, signals_exist |-> FALSE,
                   first_index |-> status.first_index + 1,
                   messages |-> StorageRemove(acc.messages, <<para_id, status.first_index>>),
                   signals |-> acc.signals])
        ELSE None
    ELSE None

\* The sizes decode_len(para_id, index).unwrap() sums; unwrap panics on a missing key
remaining_pages_exist(messages, para_id, first_index, last_index) ==
    PageKeys(para_id, first_index, last_index) \subseteq DOMAIN messages

remaining_total_size(messages, para_id, first_index, last_index) ==
    SumOver(PageKeys(para_id, first_index, last_index),
            [k \in PageKeys(para_id, first_index, last_index) |-> Len(messages[k])])

\* A take that decays the factor whatever is left in the queue
fee_after_take_always(fee, para_id, remaining, max_total_size) ==
    decrease_fee_factor(fee, para_id)

\* A take that escalates the factor where it should decay it
fee_after_take_escalates(fee, para_id, remaining, max_total_size) ==
    IF remaining <= max_total_size \div THRESHOLD_FACTOR
    THEN [fee EXCEPT ![para_id] = fee[para_id] + 1]
    ELSE fee

\* The factors after a page was taken, given what is left for the channel
fee_after_take(fee, para_id, remaining, max_total_size) ==
    IF remaining <= max_total_size \div THRESHOLD_FACTOR
    THEN decrease_fee_factor(fee, para_id)
    ELSE fee

\* The body of `for status in statuses.iter_mut()` from record i on.
\* chan[para] is what the transport answers for para during this call:
\* [status, max_size_now, max_size_ever, info], info being get_channel_info's Option.
RECURSIVE take_loop(_, _, _, _)
take_loop(acc, i, max_message_count, chan) ==
    IF i > Len(acc.statuses) \/ acc.panicked THEN acc ELSE
    LET status == acc.statuses[i]
        para_id == status.recipient
        c == chan[para_id]
    IN
    IF c.status = "Closed" THEN take_loop(close_channel(acc, i), i + 1, max_message_count, chan)
    ELSE IF c.status = "Full" THEN take_loop(acc, i + 1, max_message_count, chan)
    ELSE IF Len(acc.result) = max_message_count THEN acc
    ELSE
    LET picked == pick_page(acc, status, c.max_size_now) IN
    IF picked = None THEN take_loop(acc, i + 1, max_message_count, chan) ELSE
    LET p == picked[1]
        signals_exist == IF p.signal THEN FALSE ELSE status.signals_exist
        emptied == p.first_index = status.last_index
        first_index == IF emptied THEN 0 ELSE p.first_index
        last_index == IF emptied THEN 0 ELSE status.last_index
        oversize == Len(p.page) > c.max_size_ever
        max_total_size == IF c.info = None THEN MAX_POSSIBLE_ALLOCATION
                          ELSE c.info[1].max_total_size
        panics == ~remaining_pages_exist(p.messages, para_id, first_index, last_index)
    IN
    IF panics THEN [acc EXCEPT !.panicked = TRUE] ELSE
    take_loop(
        [acc EXCEPT
            !.messages = p.messages,
            !.signals = p.signals,
            !.result = IF oversize THEN @ ELSE Append(@, <<para_id, p.page>>),
            !.taken = @ \cup {para_id},
            !.fee = fee_after_take(@, para_id,
                        remaining_total_size(p.messages, para_id, first_index, last_index),
                        max_total_size),
            !.statuses[i] = [recipient |-> para_id, state |-> status.state,
                             signals_exist |-> signals_exist,
                             first_index |-> first_index, last_index |-> last_index]],
        i + 1, max_message_count, chan)

\* A result left in the order the records were visited
sort_by_key_unsorted(result) == result

\* result.sort_by_key(|m| m.0)
RECURSIVE sort_by_key(_)
sort_by_key(result) ==
    IF Len(result) = 0 THEN <<>>
    ELSE LET m == CHOOSE i \in 1..Len(result) :
                    /\ \A j \in 1..Len(result) : result[i][1] <= result[j][1]
                    /\ \A j \in 1..(i - 1) : result[j][1] # result[i][1]
         IN <<result[m]>> \o sort_by_key(SubSeq(result, 1, m - 1)
                                         \o SubSeq(result, m + 1, Len(result)))

\* statuses.retain(|x| ...)
retain_active(statuses) ==
    SelectSeq(statuses, LAMBDA x : \/ x.state = "Suspended"
                                   \/ x.signals_exist
                                   \/ x.first_index < x.last_index)

\* BoundedVec::try_rotate_left: nothing is done when mid exceeds the length
try_rotate_left(statuses, mid) ==
    IF mid > Len(statuses) THEN statuses
    ELSE SubSeq(statuses, mid + 1, Len(statuses)) \o SubSeq(statuses, 1, mid)

\* A registry that is pruned and never rotated
prune_without_rotation(statuses, old_statuses_len, result_len) ==
    retain_active(statuses)

\* The registry as stored at the end: pruned, then rotated
prune_and_rotate(statuses, old_statuses_len, result_len) ==
    LET kept == retain_active(statuses)
        pruned == old_statuses_len - Len(kept)
    IN try_rotate_left(kept, Max(result_len - pruned, 0))

\* take_outbound_messages on the current storage
take_outbound_messages(maximum_channels, chan) ==
    LET statuses == OutboundXcmpStatus
        old_statuses_len == Len(statuses)
        max_message_count == Min(Len(statuses), maximum_channels)
        acc == take_loop([statuses |-> statuses, messages |-> OutboundXcmpMessages,
                          signals |-> SignalMessages, fee |-> DeliveryFeeFactor,
                          result |-> <<>>, taken |-> {}, panicked |-> FALSE],
                         1, max_message_count, chan)
    IN [acc EXCEPT
          !.result = sort_by_key(@),
          !.statuses = prune_and_rotate(@, old_statuses_len, Len(acc.result))]

\* One call of take_outbound_messages; a panic leaves the storage as it was
TakeOutboundMessages(maximum_channels, chan) ==
    LET r == take_outbound_messages(maximum_channels, chan) IN
    /\ IF r.panicked
       THEN UNCHANGED <<OutboundXcmpStatus, OutboundXcmpMessages, SignalMessages,
                        DeliveryFeeFactor>>
       ELSE /\ OutboundXcmpStatus' = r.statuses
            /\ OutboundXcmpMessages' = r.messages
            /\ SignalMessages' = r.signals
            /\ DeliveryFeeFactor' = r.fee
    /\ ret' = [op |-> "take_outbound_messages", maximum_channels |-> maximum_channels,
               chan |-> chan, result |-> r.result, taken |-> r.taken,
               panicked |-> r.panicked]
    /\ UNCHANGED <<T, QueueConfig, InboundXcmpSuspended>>

-----------------------------------------------------------------------------
(* Signal path and the outbound suspension state machine.                  *)

\* (XcmpMessageFormat::Signals, signal).encode()
signal_page(signal) == EncodeFormat("Signals") \o EncodeSignal(signal)

\* A send_signal that adds its frame to the page already pending for dest
send_signal_appends(status, signals, dest, signal) ==
    LET found == Position(status, dest)
        pushed == try_push(status, [OutboundChannelDetails_new(dest)
                                        EXCEPT !.signals_exist = TRUE])
        page == IF StorageGet(signals, dest) = <<>> THEN signal_page(signal)
                ELSE StorageGet(signals, dest) \o EncodeSignal(signal)
    IN
    IF found = 0 /\ pushed = <<>>
    THEN [result |-> Err("TooManyActiveOutboundChannels"),
          status |-> status, signals |-> signals]
    ELSE IF Len(page) > MaxPageSize
    THEN [result |-> Err("TooBig"), status |-> status, signals |-> signals]
    ELSE [result |-> Ok("unit"),
          status |-> IF found # 0 THEN [status EXCEPT ![found].signals_exist = TRUE]
                     ELSE pushed[1],
          signals |-> StorageInsert(signals, dest, page)]

\* A send_signal that stores its page before it looks for room in the registry
send_signal_writes_first(status, signals, dest, signal) ==
    LET found == Position(status, dest)
        pushed == try_push(status, [OutboundChannelDetails_new(dest)
                                        EXCEPT !.signals_exist = TRUE])
        page == signal_page(signal)
    IN
    IF found = 0 /\ pushed = <<>>
    THEN [result |-> Err("TooManyActiveOutboundChannels"),
          status |-> status, signals |-> StorageInsert(signals, dest, page)]
    ELSE IF Len(page) > MaxPageSize
    THEN [result |-> Err("TooBig"), status |-> status, signals |-> signals]
    ELSE [result |-> Ok("unit"),
          status |-> IF found # 0 THEN [status EXCEPT ![found].signals_exist = TRUE]
                     ELSE pushed[1],
          signals |-> StorageInsert(signals, dest, page)]

\* Pallet::send_signal on storage (status, signals): the result and both stores after
send_signal(status, signals, dest, signal) ==
    LET found == Position(status, dest)
        pushed == try_push(status, [OutboundChannelDetails_new(dest)
                                        EXCEPT !.signals_exist = TRUE])
        page == signal_page(signal)
    IN
    IF found = 0 /\ pushed = <<>>
    THEN [result |-> Err("TooManyActiveOutboundChannels"),
          status |-> status, signals |-> signals]
    ELSE IF Len(page) > MaxPageSize
    THEN [result |-> Err("TooBig"), status |-> status, signals |-> signals]
    ELSE [result |-> Ok("unit"),
          status |-> IF found # 0 THEN [status EXCEPT ![found].signals_exist = TRUE]
                     ELSE pushed[1],
          signals |-> StorageInsert(signals, dest, page)]

\* A suspension that puts a fresh record in the place of the one it finds
suspend_channel_fresh(s, target) ==
    LET found == Position(s, target)
        fresh == [OutboundChannelDetails_new(target) EXCEPT !.state = "Suspended"]
        pushed == try_push(s, fresh)
    IN
    IF found # 0 THEN [s EXCEPT ![found] = fresh]
    ELSE IF pushed = <<>> THEN s
    ELSE pushed[1]

\* Pallet::suspend_channel on a registry
suspend_channel(s, target) ==
    LET found == Position(s, target)
        pushed == try_push(s, [OutboundChannelDetails_new(target)
                                   EXCEPT !.state = "Suspended"])
    IN
    IF found # 0 THEN [s EXCEPT ![found].state = "Suspended"]
    ELSE IF pushed = <<>> THEN s
    ELSE pushed[1]

\* s.remove(index)
RemoveAt(s, index) == SubSeq(s, 1, index - 1) \o SubSeq(s, index + 1, Len(s))

\* A resume that drops the record whatever it still holds
resume_channel_drops(s, target) ==
    LET index == Position(s, target) IN
    IF index = 0 THEN s ELSE RemoveAt(s, index)

\* Pallet::resume_channel on a registry
resume_channel(s, target) ==
    LET index == Position(s, target) IN
    IF index = 0 THEN s
    ELSE IF s[index].first_index = s[index].last_index THEN RemoveAt(s, index)
    ELSE [s EXCEPT ![index].state = "Ok"]

-----------------------------------------------------------------------------
(* Inbound congestion controller: OnQueueChanged::on_queue_changed.        *)

\* An insertion that ignores the bound of the set
try_insert_unbounded(set, para) == Some(set \cup {para})

\* BoundedBTreeSet::try_insert: None when the set is full and para is new
try_insert(set, para) ==
    IF para \notin set /\ Cardinality(set) >= MaxInboundSuspended
    THEN None ELSE Some(set \cup {para})

\* One call of on_queue_changed(para, fp) with fp.ready_pages = ready_pages
OnQueueChanged(para, ready_pages) ==
    LET suspended == para \in InboundXcmpSuspended
        resume == send_signal(OutboundXcmpStatus, SignalMessages, para, "Resume")
        suspend == send_signal(OutboundXcmpStatus, SignalMessages, para, "Suspend")
        inserted == try_insert(InboundXcmpSuspended, para)
    IN
    /\ IF suspended /\ ready_pages <= QueueConfig.resume_threshold THEN
            /\ OutboundXcmpStatus' = resume.status
            /\ SignalMessages' = resume.signals
            /\ InboundXcmpSuspended' =
                    IF resume.result.ok THEN InboundXcmpSuspended \ {para}
                    ELSE InboundXcmpSuspended
            /\ ret' = [op |-> "on_queue_changed", para |-> para,
                       ready_pages |-> ready_pages,
                       signal |-> Some("Resume"), sent |-> resume.result]
       ELSE IF ~suspended /\ ready_pages >= QueueConfig.suspend_threshold THEN
            /\ OutboundXcmpStatus' = suspend.status
            /\ SignalMessages' = suspend.signals
            /\ InboundXcmpSuspended' =
                    IF suspend.result.ok /\ inserted # None THEN inserted[1]
                    ELSE InboundXcmpSuspended
            /\ ret' = [op |-> "on_queue_changed", para |-> para,
                       ready_pages |-> ready_pages,
                       signal |-> Some("Suspend"), sent |-> suspend.result]
       ELSE /\ UNCHANGED <<OutboundXcmpStatus, SignalMessages, InboundXcmpSuspended>>
            /\ ret' = [op |-> "on_queue_changed", para |-> para,
                       ready_pages |-> ready_pages,
                       signal |-> None, sent |-> Ok("unit")]
    /\ UNCHANGED <<T, QueueConfig, OutboundXcmpMessages, DeliveryFeeFactor>>

-----------------------------------------------------------------------------
(* InspectMessageQueues::clear_messages.                                   *)

ClearMessages ==
    /\ OutboundXcmpMessages' = EmptyMap
    /\ OutboundXcmpStatus' =
            IF Len(OutboundXcmpStatus) = 0 THEN <<>>
            ELSE [i \in 1..Len(OutboundXcmpStatus) |->
                    [OutboundXcmpStatus[i] EXCEPT !.first_index = 0, !.last_index = 0]]
    /\ ret' = [op |-> "clear_messages"]
    /\ UNCHANGED <<T, QueueConfig, InboundXcmpSuspended, SignalMessages, DeliveryFeeFactor>>

-----------------------------------------------------------------------------
(* Inbound decoder/dispatcher: XcmpMessageHandler::handle_xcmp_messages.   *)
(* A weight is one number here; the meter is [limit, consumed].            *)

\* pub const XCM_BATCH_SIZE
XCM_BATCH_SIZE == 250

\* T::WeightInfo::suspend_channel().max(T::WeightInfo::resume_channel())
SignalWeight == 1

\* T::WeightInfo::uncached_enqueue_xcmp_messages(), the first-touch surcharge: the
\* fixed cost of touching the queue of a sender, more than decoding one item and
\* enqueuing it
UncachedEnqueueWeight == 3

\* T::WeightInfo::take_first_concatenated_xcm()
TakeFirstWeight == 1

\* T::WeightInfo::enqueue_xcmp_messages(first_page_pos, batch_info)
EnqueueWeight(first_page_pos, msgs_count) == first_page_pos + msgs_count

\* WeightMeter::can_consume
can_consume(meter, w) == meter.consumed + w <= meter.limit

\* WeightMeter::consume: added whether or not it fits
consume(meter, w) == [meter EXCEPT !.consumed = @ + w]

\* ChannelSignal::decode of the first byte: "Suspend", "Resume" or "Err"
DecodeSignal(data) ==
    IF data[1] = 0 THEN "Suspend" ELSE IF data[1] = 1 THEN "Resume" ELSE "Err"

\* The `while !data.is_empty()` loop of a Signals page: the registry and the meter
\* after, the number of signals applied, and starved when the loop ended because
\* the meter could not take a signal
RECURSIVE handle_signals_from(_, _, _, _, _)
handle_signals_from(s, meter, sender, data, applied) ==
    IF Len(data) = 0 THEN [s |-> s, meter |-> meter, applied |-> applied, starved |-> FALSE]
    ELSE IF ~can_consume(meter, SignalWeight)
    THEN [s |-> s, meter |-> meter, applied |-> applied, starved |-> TRUE]
    ELSE LET signal == DecodeSignal(data)
             paid == consume(meter, SignalWeight)
         IN IF signal = "Suspend"
            THEN handle_signals_from(suspend_channel(s, sender), paid, sender, Tail(data),
                                     applied + 1)
            ELSE IF signal = "Resume"
            THEN handle_signals_from(resume_channel(s, sender), paid, sender, Tail(data),
                                     applied + 1)
            ELSE [s |-> s, meter |-> paid, applied |-> applied, starved |-> FALSE]

\* A signal loop that passes over an undecodable signal and goes on with the next
RECURSIVE handle_signals_past_errors(_, _, _, _)
handle_signals_past_errors(s, meter, sender, data) ==
    IF Len(data) = 0 THEN [s |-> s, meter |-> meter, applied |-> 0, starved |-> FALSE]
    ELSE IF ~can_consume(meter, SignalWeight)
    THEN [s |-> s, meter |-> meter, applied |-> 0, starved |-> TRUE]
    ELSE LET signal == DecodeSignal(data)
             paid == consume(meter, SignalWeight)
             next == IF signal = "Suspend" THEN suspend_channel(s, sender)
                     ELSE IF signal = "Resume" THEN resume_channel(s, sender)
                     ELSE s
             rest == handle_signals_past_errors(next, paid, sender, Tail(data))
         IN [rest EXCEPT !.applied = @ + (IF signal = "Err" THEN 0 ELSE 1)]

handle_signals(s, meter, sender, data) == handle_signals_from(s, meter, sender, data, 0)

\* Decoding one length-prefixed item off the front of data and encoding it again:
\* None when it does not decode or is longer than MaxXcmpMessageLenOf<T>
decode_item(data) ==
    LET n == data[1] \div 4 IN
    IF data[1] % 4 # 0 \/ Len(data) - 1 < n \/ n + 1 > T.MaxXcmpMessageLen THEN None
    ELSE Some([xcm |-> EncodeFragment(SubSeq(data, 2, n + 1)),
               rest |-> SubSeq(data, n + 2, Len(data))])

\* Pallet::take_first_concatenated_xcm on what is left of a page: one turn of the
\* loop of take_first_concatenated_xcms.  st is [done, ok, batch, data, meter,
\* starved]; done once the loop has returned, ok = FALSE for Err(batch), starved
\* when the meter could not take the decoding of an item.
take_first_concatenated_xcm(st, batch_size) ==
    IF Len(st.data) = 0 THEN [st EXCEPT !.done = TRUE]
    ELSE IF ~can_consume(st.meter, TakeFirstWeight)
    THEN [st EXCEPT !.done = TRUE, !.ok = FALSE, !.starved = TRUE]
    ELSE LET paid == consume(st.meter, TakeFirstWeight)
             item == decode_item(st.data)
         IN IF item = None
            THEN [st EXCEPT !.done = TRUE, !.ok = FALSE, !.meter = paid]
            ELSE [st EXCEPT !.done = Len(st.batch) + 1 >= batch_size,
                            !.batch = Append(@, item[1].xcm),
                            !.data = item[1].rest,
                            !.meter = paid]

\* Up to `turns` turns of the loop, halved so that a long page needs no deep nesting
RECURSIVE take_first_turns(_, _, _)
take_first_turns(st, batch_size, turns) ==
    IF st.done \/ turns = 0 THEN st
    ELSE IF turns = 1 THEN take_first_concatenated_xcm(st, batch_size)
    ELSE take_first_turns(take_first_turns(st, batch_size, turns \div 2),
                          batch_size, turns - turns \div 2)

\* Pallet::take_first_concatenated_xcms: [ok, batch, data, meter, starved].  The
\* loop returns within batch_size + 1 turns.
take_first_concatenated_xcms(data, batch_size, meter, batch) ==
    take_first_turns([done |-> FALSE, ok |-> TRUE, batch |-> batch, data |-> data,
                      meter |-> meter, starved |-> FALSE],
                     batch_size, Max(batch_size, 1) + 1)

\* The encoded sizes of xcms[lo..hi], summed
RECURSIVE size_between(_, _, _)
size_between(xcms, lo, hi) ==
    IF lo > hi THEN 0
    ELSE IF lo = hi THEN Len(xcms[lo])
    ELSE LET mid == (lo + hi) \div 2
         IN size_between(xcms, lo, mid) + size_between(xcms, mid + 1, hi)

\* The largest count in lo..hi whose messages take no more than `room` bytes; lo does
RECURSIVE largest_fitting(_, _, _, _)
largest_fitting(xcms, room, lo, hi) ==
    IF lo >= hi THEN lo
    ELSE LET mid == (lo + hi + 1) \div 2
         IN IF size_between(xcms, 1, mid) <= room
            THEN largest_fitting(xcms, room, mid, hi)
            ELSE largest_fitting(xcms, room, lo, mid - 1)

\* T::XcmpQueue::get_batches_footprints: the number of footprints the downstream
\* queue answers with, one per message of the longest prefix of xcms it has room for
footprints_offered(xcms, downstream) == largest_fitting(xcms, downstream.room, 0, Len(xcms))

\* batches_footprints.search_best_by(..): the largest prefix of the footprints the
\* downstream queue offers (at most `offered` messages) whose weight the meter can take
best_batch_footprint(meter, first_page_pos, offered) ==
    LET fitting == {c \in 1..offered : can_consume(meter, EnqueueWeight(first_page_pos, c))}
    IN IF fitting = {} THEN 0 ELSE CHOOSE c \in fitting : \A d \in fitting : d <= c

\* Pallet::enqueue_xcmp_messages: [ok, enqueued, meter].  downstream is what the
\* message queue answers: [first_page_pos, room], room the bytes of messages of the
\* sender it takes before its pages reach drop_threshold.  starved when the meter
\* kept an offered footprint out.
enqueue_xcmp_messages(sender, xcms, meter, downstream) ==
    LET offered == footprints_offered(xcms, downstream)
        best == best_batch_footprint(meter, downstream.first_page_pos, offered)
    IN [ok |-> best >= Len(xcms),
        enqueued |-> [i \in 1..best |-> <<sender, xcms[i]>>],
        meter |-> consume(meter, EnqueueWeight(downstream.first_page_pos, best)),
        starved |-> best < offered]

\* What the message queue answers for a sender once the messages of `enqueued`
\* were handed to it
room_left(downstream, enqueued, sender) ==
    LET entries == SelectSeq(enqueued, LAMBDA m : m[1] = sender)
        taken == size_between([i \in 1..Len(entries) |-> entries[i][2]], 1, Len(entries))
    IN [downstream EXCEPT !.room = Max(@ - taken, 0)]

\* The batch loop with the page dropped when the decode stream broke: the items
\* decoded before the failure are not handed on
RECURSIVE handle_payload_drops_partial(_, _, _, _, _, _)
handle_payload_drops_partial(sender, data, meter, enqueued, downstream, note) ==
    LET taken == take_first_concatenated_xcms(data, XCM_BATCH_SIZE, meter, <<>>) IN
    IF Len(taken.batch) = 0 \/ ~taken.ok
    THEN [meter |-> taken.meter, enqueued |-> enqueued,
          note |-> [note EXCEPT !.starved = @ \/ taken.starved]]
    ELSE LET e == enqueue_xcmp_messages(sender, taken.batch, taken.meter,
                                        room_left(downstream, enqueued, sender))
             all == enqueued \o e.enqueued
             noted == [note EXCEPT !.starved = @ \/ e.starved,
                                   !.batches = Append(@, taken.batch),
                                   !.accepted = @ + Len(e.enqueued)]
         IN IF ~e.ok THEN [meter |-> e.meter, enqueued |-> all, note |-> noted]
            ELSE handle_payload_drops_partial(sender, taken.data, e.meter, all,
                                              downstream, noted)

\* Nothing noted for a page yet
NoNote ==
    [starved |-> FALSE, charged |-> FALSE, batches |-> <<>>, accepted |-> 0,
     signals |-> 0]

\* The `while can_process_next_batch` loop of a ConcatenatedVersionedXcm page; note
\* records the batches handed to enqueue_xcmp_messages and the messages it accepted.
RECURSIVE handle_payload(_, _, _, _, _, _)
handle_payload(sender, data, meter, enqueued, downstream, note) ==
    LET taken == take_first_concatenated_xcms(data, XCM_BATCH_SIZE, meter, <<>>) IN
    IF Len(taken.batch) = 0
    THEN [meter |-> taken.meter, enqueued |-> enqueued,
          note |-> [note EXCEPT !.starved = @ \/ taken.starved]]
    ELSE LET e == enqueue_xcmp_messages(sender, taken.batch, taken.meter,
                                        room_left(downstream, enqueued, sender))
             all == enqueued \o e.enqueued
             noted == [note EXCEPT !.starved = @ \/ taken.starved \/ e.starved,
                                   !.batches = Append(@, taken.batch),
                                   !.accepted = @ + Len(e.enqueued)]
         IN IF ~e.ok \/ ~taken.ok THEN [meter |-> e.meter, enqueued |-> all, note |-> noted]
            ELSE handle_payload(sender, taken.data, e.meter, all, downstream, noted)

\* The `for (sender, _sent_at, data) in iter` loop from page i on; log has one
\* note per page: whether a charge was refused in it, whether the surcharge was
\* charged for it, the batches it handed on, the messages enqueued from it and
\* the signals of it that were applied
RECURSIVE handle_pages(_, _, _, _)
handle_pages(acc, pages, i, downstream) ==
    IF i > Len(pages) THEN acc ELSE
    LET sender == pages[i][1]
        format == DecodeFormat(pages[i][2])
        data == Tail(pages[i][2])
    IN
    IF format = "Err" \/ format = "ConcatenatedEncodedBlob"
    THEN handle_pages([acc EXCEPT !.log = Append(@, NoNote)], pages, i + 1, downstream)
    ELSE IF format = "Signals" THEN
        LET r == handle_signals(acc.s, acc.meter, sender, data) IN
        handle_pages([acc EXCEPT !.s = r.s, !.meter = r.meter,
                                 !.log = Append(@, [NoNote EXCEPT !.starved = r.starved,
                                                                  !.signals = r.applied])],
                     pages, i + 1, downstream)
    ELSE
        LET first == sender \notin acc.known_xcm_senders
            known == acc.known_xcm_senders \cup {sender}
        IN
        IF first /\ ~can_consume(acc.meter, UncachedEnqueueWeight)
        THEN handle_pages([acc EXCEPT !.known_xcm_senders = known,
                                      !.log = Append(@, [NoNote EXCEPT !.starved = TRUE])],
                          pages, i + 1, downstream)
        ELSE
        LET meter == IF first THEN consume(acc.meter, UncachedEnqueueWeight) ELSE acc.meter
            r == handle_payload(sender, data, meter, acc.enqueued, downstream,
                                [NoNote EXCEPT !.charged = first])
        IN handle_pages([acc EXCEPT !.known_xcm_senders = known, !.meter = r.meter,
                                    !.enqueued = r.enqueued, !.log = Append(@, r.note)],
                        pages, i + 1, downstream)

\* handle_xcmp_messages(iter, max_weight) on the current registry
handle_xcmp_messages(pages, max_weight, downstream) ==
    handle_pages([s |-> OutboundXcmpStatus,
                  meter |-> [limit |-> max_weight, consumed |-> 0],
                  known_xcm_senders |-> {}, enqueued |-> <<>>, log |-> <<>>],
                 pages, 1, downstream)

\* One call of handle_xcmp_messages
HandleXcmpMessages(pages, max_weight, downstream) ==
    LET r == handle_xcmp_messages(pages, max_weight, downstream) IN
    /\ OutboundXcmpStatus' = r.s
    /\ ret' = [op |-> "handle_xcmp_messages", pages |-> pages, max_weight |-> max_weight,
               downstream |-> downstream, consumed |-> r.meter.consumed,
               enqueued |-> r.enqueued, log |-> r.log]
    /\ UNCHANGED <<T, QueueConfig, InboundXcmpSuspended, OutboundXcmpMessages,
                   SignalMessages, DeliveryFeeFactor>>

-----------------------------------------------------------------------------
(* Genesis.                                                                *)

\* The sibling parachains of the model
ParaIds == {1000, 2000, 3000}

Genesis(config) ==
    /\ T = config
    /\ QueueConfig = DefaultQueueConfig
    /\ InboundXcmpSuspended = {}
    /\ OutboundXcmpStatus = <<>>
    /\ OutboundXcmpMessages = EmptyMap
    /\ SignalMessages = EmptyMap
    /\ DeliveryFeeFactor = [p \in ParaIds |-> DefaultFeeFactor]
    /\ ret = [op |-> "genesis"]

\* The history variable where no history is kept
NoHistory == [calls |-> 0]

-----------------------------------------------------------------------------
(* The configuration extrinsics on their own.                              *)

\* Values tried for a threshold: around zero and around the defaults
NewValues == {0, 1, 7, 8, 9, 31, 32, 33, 47, 48, 49}

Origins == {"Root", "Signed"}

RuntimeSmall ==
    [MaxActiveOutboundChannels |-> 2, MaxInboundSuspended |-> 1,
     MaxPageSize |-> 6, MaxXcmpMessageLen |-> 4]

InitConfig == Genesis(RuntimeSmall) /\ fair = NoHistory

UpdateSuspendThreshold ==
    \E origin \in Origins, new \in NewValues :
        update_suspend_threshold(origin, new) /\ UNCHANGED fair

UpdateDropThreshold ==
    \E origin \in Origins, new \in NewValues :
        update_drop_threshold(origin, new) /\ UNCHANGED fair

UpdateResumeThreshold ==
    \E origin \in Origins, new \in NewValues :
        update_resume_threshold(origin, new) /\ UNCHANGED fair

NextConfig == UpdateSuspendThreshold \/ UpdateDropThreshold \/ UpdateResumeThreshold

SpecConfig == InitConfig /\ [][NextConfig]_vars

UpdateOps == {"update_suspend_threshold", "update_drop_threshold", "update_resume_threshold"}

\* The field an update extrinsic writes
FieldOf(op) ==
    CASE op = "update_suspend_threshold" -> "suspend_threshold"
      [] op = "update_drop_threshold" -> "drop_threshold"
      [] op = "update_resume_threshold" -> "resume_threshold"

\* C1: after any sequence of threshold updates, accepted or rejected, the stored
\* configuration satisfies 0 < resume_threshold < suspend_threshold <= drop_threshold.
C1_ConfigInvariant ==
    /\ 0 < QueueConfig.resume_threshold
    /\ QueueConfig.resume_threshold < QueueConfig.suspend_threshold
    /\ QueueConfig.suspend_threshold <= QueueConfig.drop_threshold

\* A rejected update that follows accepted ones
C1_Witness ==
    /\ ret.op \in UpdateOps
    /\ ret.result = "BadQueueConfig"
    /\ QueueConfig.resume_threshold # DefaultQueueConfig.resume_threshold
    /\ QueueConfig.suspend_threshold # DefaultQueueConfig.suspend_threshold
    /\ QueueConfig.drop_threshold # DefaultQueueConfig.drop_threshold

\* C2: a root update whose value would break the configuration invariant returns
\* BadQueueConfig and leaves the three stored thresholds as they were.
C2_RejectedUpdateChangesNothing ==
    [][(/\ ret'.op \in UpdateOps
        /\ ret'.origin = "Root"
        /\ LET data == [QueueConfig EXCEPT ![FieldOf(ret'.op)] = ret'.new]
           IN ~(/\ 0 < data.resume_threshold
                /\ data.resume_threshold < data.suspend_threshold
                /\ data.suspend_threshold <= data.drop_threshold))
       => (ret'.result = "BadQueueConfig" /\ QueueConfig' = QueueConfig)]_vars

\* A resume threshold at or above the suspend threshold was just refused
C2_Witness ==
    /\ ret.op = "update_resume_threshold"
    /\ ret.origin = "Root"
    /\ ret.new >= QueueConfig.suspend_threshold
    /\ ret.result = "BadQueueConfig"
    /\ QueueConfig # DefaultQueueConfig

-----------------------------------------------------------------------------
(* Writing and extracting pages for one sibling, over fragment sizes and   *)
(* channel limits.                                                         *)

\* Fragments of 1, 2, 3 and 5 bytes; the last exceeds every page limit tried
FragmentsPages == {<<7>>, <<7, 8>>, <<7, 8, 9>>, <<7, 8, 9, 7, 8>>}

\* get_channel_info answers: no channel, or the channel's limits
ChannelInfosPages ==
    {None,
     Some([max_message_size |-> 4, max_total_size |-> 8]),
     Some([max_message_size |-> 9, max_total_size |-> 20])}

\* get_channel_status answers, with get_channel_info's during the same call
ChannelsPages ==
    {[status |-> "Closed", max_size_now |-> 0, max_size_ever |-> 0, info |-> None],
     [status |-> "Full", max_size_now |-> 0, max_size_ever |-> 4,
      info |-> Some([max_message_size |-> 4, max_total_size |-> 8])],
     [status |-> "Ready", max_size_now |-> 4, max_size_ever |-> 4,
      info |-> Some([max_message_size |-> 4, max_total_size |-> 8])],
     [status |-> "Ready", max_size_now |-> 6, max_size_ever |-> 9,
      info |-> Some([max_message_size |-> 9, max_total_size |-> 20])],
     [status |-> "Ready", max_size_now |-> 9, max_size_ever |-> 9,
      info |-> None]}

\* The second sibling
PeerPages == 2 * 1000

InitPages == Genesis(RuntimeSmall) /\ fair = NoHistory

SendPages ==
    \E fragment \in FragmentsPages, channel_info \in ChannelInfosPages :
        /\ SendFragment(PeerPages, "ConcatenatedVersionedXcm", fragment, channel_info)
        /\ UNCHANGED fair

TakePages ==
    \E maximum_channels \in 0..1, c \in ChannelsPages :
        /\ TakeOutboundMessages(maximum_channels, [p \in ParaIds |-> c])
        /\ UNCHANGED fair

NextPages == SendPages \/ TakePages

SpecPages == InitPages /\ [][NextPages]_vars

\* The page limit a write was checked against
WriteLimit(call) == Min(call.channel_info[1].max_message_size, MaxPageSize)

\* format.encoded_size() of ConcatenatedVersionedXcm
FormatHeaderSize == Len(EncodeFormat("ConcatenatedVersionedXcm"))

\* C3: a fragment whose encoded size plus the format header is within
\* min(the channel's max message size, MaxPageSize) is never refused as TooBig,
\* whatever is queued for the peer.
C3_FittingFragmentNeverTooBig ==
    (/\ ret.op = "send_fragment"
     /\ ret.channel_info # None
     /\ Len(EncodeFragment(ret.fragment)) + FormatHeaderSize <= WriteLimit(ret))
    => (ret.result.ok \/ ret.result.err # "TooBig")

\* A fragment that exactly fills the limit was written behind queued pages
C3_Witness ==
    /\ ret.op = "send_fragment"
    /\ ret.channel_info # None
    /\ Len(EncodeFragment(ret.fragment)) + FormatHeaderSize = WriteLimit(ret)
    /\ ret.queued_before >= 1
    /\ ret.result.ok

\* The entries of a take_outbound_messages result that are for para
EntriesFor(result, para) == SelectSeq(result, LAMBDA m : m[1] = para)

\* The record of para in the registry, or None
RecordOf(para) ==
    LET found == Position(OutboundXcmpStatus, para) IN
    IF found = 0 THEN None ELSE Some(OutboundXcmpStatus[found])

\* C4: a fragment written to a peer with an empty queue (state Ok, no signal) comes
\* out of the next take_outbound_messages call, made with the channel Ready at a
\* current size limit equal to the limit of the write and a budget of at least 1,
\* as the one entry for the peer: the format header followed by the encoded fragment.
C4_RoundTrip ==
    [][(/\ ret.op = "send_fragment"
        /\ ret.result.ok
        /\ ret.queued_before = 0
        /\ RecordOf(ret.recipient) # None
        /\ RecordOf(ret.recipient)[1].state = "Ok"
        /\ ~RecordOf(ret.recipient)[1].signals_exist
        /\ Len(OutboundXcmpStatus) = 1
        /\ ret'.op = "take_outbound_messages"
        /\ ret'.maximum_channels >= 1
        /\ ret'.chan[ret.recipient].status = "Ready"
        /\ ret'.chan[ret.recipient].max_size_now = WriteLimit(ret)
        /\ ret'.chan[ret.recipient].max_size_ever >= WriteLimit(ret))
       => EntriesFor(ret'.result, ret.recipient) =
            << <<ret.recipient,
                 EncodeFormat(ret.format) \o EncodeFragment(ret.fragment)>> >>]_vars

\* C9: the delivery fee factor of every peer is at least the minimum fee factor.
C9_FeeFactorAtLeastMinimum ==
    \A p \in ParaIds : DeliveryFeeFactor[p] >= MinFeeFactor

\* A take has decayed a factor that writes had escalated
C9_Witness ==
    /\ ret.op = "take_outbound_messages"
    /\ PeerPages \in ret.taken
    /\ DeliveryFeeFactor[PeerPages] > MinFeeFactor
    /\ DeliveryFeeFactor[PeerPages] < (MinFeeFactor * 105) \div 100

\* C10: no send_fragment call lowers a fee factor, and no take_outbound_messages
\* call raises one.
C10_FeeFactorMonotonic ==
    [][/\ ret'.op = "send_fragment" =>
            \A p \in ParaIds : DeliveryFeeFactor'[p] >= DeliveryFeeFactor[p]
       /\ ret'.op = "take_outbound_messages" =>
            \A p \in ParaIds : DeliveryFeeFactor'[p] <= DeliveryFeeFactor[p]]_vars

\* A write has escalated a factor that a take had decayed
C10_Witness ==
    /\ ret.op = "send_fragment"
    /\ ret.result.ok
    /\ DeliveryFeeFactor[PeerPages] > (MinFeeFactor * 105) \div 100
    /\ DeliveryFeeFactor[PeerPages] < MaxFeeFactor

-----------------------------------------------------------------------------
(* The whole pallet: writes, signals in both directions, extraction under  *)
(* every channel status, and clear_messages.  Sibling 2000 takes part in   *)
(* everything; sibling 1000 is only written to and extracted from.         *)

\* Data pages a sibling may have queued in this specification
MaxQueued == 2

\* The second sibling
PeerSpec == 2 * 1000

ParasSpec == {1000, 2000}

\* One fragment; with a limit of 4 bytes each write opens a page of 3 bytes
FragmentSpec == <<7>>

\* The total size is large enough for the fee factors to stay where they are
ChannelInfoSpec == Some([max_message_size |-> 4, max_total_size |-> 40])

\* Closed, Full, Ready with room for signals only, Ready with room for a data page
ChannelsSpec ==
    {[status |-> "Closed", max_size_now |-> 0, max_size_ever |-> 0, info |-> None],
     [status |-> "Full", max_size_now |-> 0, max_size_ever |-> 4, info |-> ChannelInfoSpec],
     [status |-> "Ready", max_size_now |-> 3, max_size_ever |-> 4, info |-> ChannelInfoSpec],
     [status |-> "Ready", max_size_now |-> 5, max_size_ever |-> 4, info |-> ChannelInfoSpec]}

\* Inbound pages: signal frames, a payload of one item, an unknown format
SuspendPage == <<2, 0>>

ResumePage == <<2, 1>>

InboundPagesSpec ==
    {<<SuspendPage>>, <<ResumePage>>, <<SuspendPage, ResumePage>>,
     << <<2, 0, 1>> >>, << <<2, 1, 5, 0>> >>, << <<0, 4, 7>> >>, << <<9>> >>}

\* Budgets: too little for two signals, and plenty
WeightsSpec == {1, 9}

\* A downstream queue with room for a page of the specification
DownstreamSpec == [first_page_pos |-> 0, room |-> 4]

\* ready_pages values at the default resume and suspend thresholds
ReadyPagesSpec == {8, 32}

Init == Genesis(RuntimeSmall) /\ fair = NoHistory

Send ==
    \E recipient \in ParasSpec :
        /\ QueuedPages(recipient) < MaxQueued
        /\ SendFragment(recipient, "ConcatenatedVersionedXcm", FragmentSpec, ChannelInfoSpec)
        /\ UNCHANGED fair

QueueChanged ==
    \E ready_pages \in ReadyPagesSpec :
        OnQueueChanged(PeerSpec, ready_pages) /\ UNCHANGED fair

Handle ==
    \E datas \in InboundPagesSpec, max_weight \in WeightsSpec :
        /\ HandleXcmpMessages([i \in 1..Len(datas) |-> <<PeerSpec, datas[i]>>],
                              max_weight, DownstreamSpec)
        /\ UNCHANGED fair

Take ==
    \E maximum_channels \in 0..2, c \in ChannelsSpec :
        /\ TakeOutboundMessages(maximum_channels, [p \in ParaIds |-> c])
        /\ UNCHANGED fair

Clear == ClearMessages /\ UNCHANGED fair

Next == Send \/ QueueChanged \/ Handle \/ Take \/ Clear

Spec == Init /\ [][Next]_vars

\* The signal frames that a call's pages carry from sender, in order
RECURSIVE SignalFrames(_, _)
SignalFrames(pages, sender) ==
    IF Len(pages) = 0 THEN <<>>
    ELSE (IF Head(pages)[1] = sender /\ DecodeFormat(Head(pages)[2]) = "Signals"
          THEN Tail(Head(pages)[2]) ELSE <<>>) \o SignalFrames(Tail(pages), sender)

\* The call processed every frame of its pages, all of them signals of sender
ProcessedSignalsOf(call, sender) ==
    /\ call.op = "handle_xcmp_messages"
    /\ \A i \in 1..Len(call.pages) :
            call.pages[i][1] = sender /\ DecodeFormat(call.pages[i][2]) = "Signals"
    /\ call.consumed = Len(SignalFrames(call.pages, sender)) * SignalWeight

\* C5: a handle_xcmp_messages call that processes Suspend and then Resume from a
\* peer (in one page or in successive pages), or Resume for a peer that an earlier
\* call suspended, leaves the peer's state Ok (a peer without a record is Ok), and
\* every data page queued for the peer is still stored with the same content under
\* the same [first_index, last_index) range.
C5_SuspendResumeKeepsPages ==
    [][\A p \in ParaIds :
        (/\ ProcessedSignalsOf(ret', p)
         /\ \/ SignalFrames(ret'.pages, p) = EncodeSignal("Suspend") \o EncodeSignal("Resume")
            \/ /\ SignalFrames(ret'.pages, p) = EncodeSignal("Resume")
               /\ RecordOf(p) # None
               /\ RecordOf(p)[1].state = "Suspended")
        => /\ RecordOf(p)' = None \/ RecordOf(p)'[1].state = "Ok"
           /\ OutboundXcmpMessages' = OutboundXcmpMessages
           /\ QueuedPages(p) > 0 =>
                /\ RecordOf(p)' # None
                /\ RecordOf(p)'[1].first_index = RecordOf(p)[1].first_index
                /\ RecordOf(p)'[1].last_index = RecordOf(p)[1].last_index
                /\ \A k \in PageKeys(p, RecordOf(p)[1].first_index, RecordOf(p)[1].last_index) :
                        /\ k \in DOMAIN OutboundXcmpMessages'
                        /\ OutboundXcmpMessages'[k] = OutboundXcmpMessages[k]]_vars

\* Suspend and Resume came in successive pages while two data pages were queued
C5_Witness ==
    /\ ret.op = "handle_xcmp_messages"
    /\ ret.pages = <<<<PeerSpec, SuspendPage>>, <<PeerSpec, ResumePage>>>>
    /\ ret.consumed = 2 * SignalWeight
    /\ RecordOf(PeerSpec) # None
    /\ RecordOf(PeerSpec)[1].state = "Ok"
    /\ QueuedPages(PeerSpec) = 2
    /\ PageKeys(PeerSpec, RecordOf(PeerSpec)[1].first_index,
                RecordOf(PeerSpec)[1].last_index) \subseteq DOMAIN OutboundXcmpMessages

\* The loop of a take_outbound_messages call reaches the record of para: no record
\* before it has a Ready channel, so the budget cannot stop the loop earlier
ReachedBy(call, para) ==
    /\ call.op = "take_outbound_messages"
    /\ ~call.panicked
    /\ Position(OutboundXcmpStatus, para) # 0
    /\ \A j \in 1..(Position(OutboundXcmpStatus, para) - 1) :
            call.chan[OutboundXcmpStatus[j].recipient].status # "Ready"

\* C6: when a take_outbound_messages call finds the channel of a registered peer
\* Closed, then at its return the peer has no data page and no signal entry stored,
\* nothing was emitted for the peer, and the registry has no record for it.
C6_ClosedPurges ==
    [][\A p \in ParaIds :
        (ReachedBy(ret', p) /\ ret'.chan[p].status = "Closed")
        => /\ \A k \in DOMAIN OutboundXcmpMessages' : k[1] # p
           /\ p \notin DOMAIN SignalMessages'
           /\ EntriesFor(ret'.result, p) = <<>>
           /\ RecordOf(p)' = None]_vars

-----------------------------------------------------------------------------
(* Extraction under a budget smaller than the number of peers: writes to   *)
(* three siblings and take_outbound_messages calls with every channel      *)
(* Ready.  The history variable follows one window of consecutive calls.   *)

\* The last_index up to which a sibling is written to in this specification
MaxBacklog == 2

RuntimeStarve ==
    [MaxActiveOutboundChannels |-> 3, MaxInboundSuspended |-> 1,
     MaxPageSize |-> 6, MaxXcmpMessageLen |-> 4]

\* A Ready channel in which every page of the specification fits
ReadyStarve ==
    [status |-> "Ready", max_size_now |-> 5, max_size_ever |-> 4, info |-> ChannelInfoSpec]

\* n = 0: no window is followed.  Otherwise the window began with n peers in the
\* registry (`peers`), its calls have budget k, `calls` of them were made so far
\* and `served` are the peers that had a page emitted in them.
NoWindow == [n |-> 0, k |-> 0, calls |-> 0, peers |-> {}, served |-> {}]

InitStarve == Genesis(RuntimeStarve) /\ fair = NoWindow

\* The peers of the registry
Recipients == {OutboundXcmpStatus[i].recipient : i \in 1..Len(OutboundXcmpStatus)}

\* The peers a take_outbound_messages result has a page for
EmittedTo(result) == {result[i][1] : i \in 1..Len(result)}

\* Every record of the registry is Ok, has no signal and holds a data page
AllPending ==
    \A i \in 1..Len(OutboundXcmpStatus) :
        /\ OutboundXcmpStatus[i].state = "Ok"
        /\ ~OutboundXcmpStatus[i].signals_exist
        /\ OutboundXcmpStatus[i].first_index < OutboundXcmpStatus[i].last_index

SendStarve ==
    \E recipient \in ParaIds :
        /\ NextPageIndex(recipient) < MaxBacklog
        /\ SendFragment(recipient, "ConcatenatedVersionedXcm", FragmentSpec, ChannelInfoSpec)
        /\ UNCHANGED fair

TakeStarve ==
    \E maximum_channels \in 1..2, start \in BOOLEAN :
        /\ TakeOutboundMessages(maximum_channels, [p \in ParaIds |-> ReadyStarve])
        /\ fair' =
            IF fair.n = 0 \/ fair.calls = fair.n
            THEN IF start /\ AllPending /\ maximum_channels < Len(OutboundXcmpStatus)
                 THEN [n |-> Len(OutboundXcmpStatus), k |-> maximum_channels, calls |-> 1,
                       peers |-> Recipients, served |-> EmittedTo(ret'.result)]
                 ELSE NoWindow
            ELSE IF maximum_channels = fair.k
                 THEN [fair EXCEPT !.calls = @ + 1,
                                   !.served = @ \cup EmittedTo(ret'.result)]
                 ELSE NoWindow

NextStarve == SendStarve \/ TakeStarve

SpecStarve == InitStarve /\ [][NextStarve]_vars

\* C7: when the registry consists of N peers, each Ok with a pending data page, all
\* channels are Ready with room for the pages, and the budget is k with 1 <= k < N,
\* then N consecutive take_outbound_messages calls with that budget (writes may
\* come between them) emit a page from every one of the N peers.
C7_StarvationFreedom ==
    (fair.n > 0 /\ fair.calls = fair.n) => fair.peers \subseteq fair.served

\* Three peers were served one after the other in three calls with a budget of 1
C7_Witness ==
    /\ ret.op = "take_outbound_messages"
    /\ fair.n = 3
    /\ fair.k = 1
    /\ fair.calls = 3
    /\ fair.served = ParaIds
    /\ Len(ret.result) = 1

-----------------------------------------------------------------------------
(* Extraction order when some channels are Full: writes to three siblings  *)
(* and take_outbound_messages calls in which each channel is Ready or Full.*)
(* The history variable holds the pairs <<p, q>> of peers with pending data *)
(* such that p was skipped in an earlier call and q was served in that call *)
(* and in every call since.                                                 *)

FullStarve ==
    [status |-> "Full", max_size_now |-> 0, max_size_ever |-> 4, info |-> ChannelInfoSpec]

ChannelsRotate == {ReadyStarve, FullStarve}

InitRotate == Genesis(RuntimeStarve) /\ fair = [lag |-> {}]

\* The peers holding pending data
Pending == {p \in ParaIds : QueuedPages(p) > 0}

\* The peers with pending data and a Ready channel that a call emitted nothing for
Skipped(chan, result) ==
    {p \in Pending : chan[p].status = "Ready" /\ p \notin EmittedTo(result)}

SendRotate ==
    \E recipient \in ParaIds :
        /\ NextPageIndex(recipient) < MaxBacklog
        /\ SendFragment(recipient, "ConcatenatedVersionedXcm", FragmentSpec, ChannelInfoSpec)
        /\ UNCHANGED fair

TakeRotate ==
    \E maximum_channels \in 1..2, chan \in [ParaIds -> ChannelsRotate] :
        /\ TakeOutboundMessages(maximum_channels, chan)
        /\ fair' =
            [lag |->
                IF maximum_channels >= Cardinality(Pending) THEN {}
                ELSE {pq \in Pending \X EmittedTo(ret'.result) :
                        /\ pq[1] # pq[2]
                        /\ QueuedPages(pq[1])' > 0
                        /\ QueuedPages(pq[2])' > 0
                        /\ pq[1] \in Skipped(chan, ret'.result) \/ pq \in fair.lag}]

NextRotate == SendRotate \/ TakeRotate

SpecRotate == InitRotate /\ [][NextRotate]_vars

\* C8: in a sequence of take_outbound_messages calls whose budget is smaller than
\* the number of peers holding pending data, no peer with pending data is skipped
\* in two calls while another peer, with pending data throughout, was served in
\* both calls and in every call between them.
C8_FairRotation ==
    [][(/\ ret'.op = "take_outbound_messages"
        /\ ret'.maximum_channels < Cardinality(Pending))
       => \A pq \in fair.lag :
            ~(/\ pq[1] \in Skipped(ret'.chan, ret'.result)
              /\ pq[2] \in EmittedTo(ret'.result))]_vars

-----------------------------------------------------------------------------
(* The fee scenario in its own numbers: a channel with max_message_size    *)
(* 1000 and max_total_size 4096.  The history variable follows the run of  *)
(* three full-page writes and three extractions from genesis on: `step` is *)
(* the number of its calls made so far and `fees` the peer's fee factor    *)
(* after each of them; a call outside the run ends it.                     *)

RuntimeFee ==
    [MaxActiveOutboundChannels |-> 2, MaxInboundSuspended |-> 1,
     MaxPageSize |-> 1024, MaxXcmpMessageLen |-> 4]

\* The second sibling
PeerFee == 2 * 1000

ChannelInfoFee == Some([max_message_size |-> 1000, max_total_size |-> 4096])

\* 997 bytes: 999 encoded, a page of 1000 bytes with the format header
FullFragment == [i \in 1..997 |-> 7]

\* 497 bytes: 499 encoded, two of them share a page
HalfFragment == [i \in 1..497 |-> 7]

\* The current size limits the transport reports: the channel's max_message_size
\* and one byte more
LimitsFee == {1000, 1001}

OffScenario == [step |-> 7, fees |-> <<>>]

InitFee == Genesis(RuntimeFee) /\ fair = [step |-> 0, fees |-> <<>>]

SendFee ==
    \E fragment \in {FullFragment, HalfFragment} :
        /\ SendFragment(PeerFee, "ConcatenatedVersionedXcm", fragment, ChannelInfoFee)
        /\ fair' = IF fair.step < 3 /\ fragment = FullFragment
                   THEN [step |-> fair.step + 1,
                         fees |-> Append(fair.fees, DeliveryFeeFactor'[PeerFee])]
                   ELSE OffScenario

TakeFee ==
    \E maximum_channels \in 0..1, max_size_now \in LimitsFee :
        /\ TakeOutboundMessages(maximum_channels, [p \in ParaIds |->
                [status |-> "Ready", max_size_now |-> max_size_now,
                 max_size_ever |-> 1000, info |-> ChannelInfoFee]])
        /\ fair' = IF fair.step \in 3..5 /\ Len(EntriesFor(ret'.result, PeerFee)) = 1
                   THEN [step |-> fair.step + 1,
                         fees |-> Append(fair.fees, DeliveryFeeFactor'[PeerFee])]
                   ELSE OffScenario

NextFee == SendFee \/ TakeFee

SpecFee == InitFee /\ [][NextFee]_vars

\* C11: for peer 2000 with max_message_size 1000 and max_total_size 4096, three
\* writes that each fill a page of 1000 bytes leave 3 pages and escalate the fee
\* exactly once, on the third write; three take_outbound_messages calls on that
\* channel that each take one of the pages then leave the peer without a queued
\* page and a decayed fee factor.
C11_FeeScenario ==
    /\ fair.step \in 1..6 => fair.fees[1] = DefaultFeeFactor
    /\ fair.step \in 2..6 => fair.fees[2] = fair.fees[1]
    /\ fair.step \in 3..6 => fair.fees[3] > fair.fees[2]
    /\ fair.step = 3 => QueuedPages(PeerFee) = 3
    /\ fair.step \in 4..6 => QueuedPages(PeerFee) = 6 - fair.step
    /\ fair.step = 6 =>
        /\ \A k \in DOMAIN OutboundXcmpMessages : k[1] # PeerFee
        /\ fair.fees[6] < fair.fees[3]

\* The third take of the scenario took the last of the three pages, after a
\* third write that escalated the fee factor
C11_Witness ==
    /\ fair.step = 6
    /\ ret.op = "take_outbound_messages"
    /\ Len(EntriesFor(ret.result, PeerFee)) = 1
    /\ QueuedPages(PeerFee) = 0
    /\ fair.fees[3] > fair.fees[2]
    /\ fair.fees[6] < fair.fees[3]

-----------------------------------------------------------------------------
(* Properties of the whole pallet (specification Spec).                    *)

\* The pages stored for para
PagesOf(messages, para) ==
    [k \in {key \in DOMAIN messages : key[1] = para} |-> messages[k]]

\* C12: the list take_outbound_messages returns is in strictly ascending peer id
\* and has at most min(maximum_channels, number of records) entries; with
\* maximum_channels = 0 it is empty and no page and no signal of a peer whose
\* channel is not Closed is removed.
C12_SortedAndBounded ==
    [][ret'.op = "take_outbound_messages" =>
        /\ \A i \in 1..(Len(ret'.result) - 1) : ret'.result[i][1] < ret'.result[i + 1][1]
        /\ Len(ret'.result) <= Min(ret'.maximum_channels, Len(OutboundXcmpStatus))
        /\ ret'.maximum_channels = 0 =>
            /\ ret'.result = <<>>
            /\ \A p \in ParaIds : ret'.chan[p].status # "Closed" =>
                /\ PagesOf(OutboundXcmpMessages', p) = PagesOf(OutboundXcmpMessages, p)
                /\ (p \in DOMAIN SignalMessages) = (p \in DOMAIN SignalMessages')
                /\ StorageGet(SignalMessages', p) = StorageGet(SignalMessages, p)]_vars

\* Both siblings were served in one call from a registry that holds 2000 before
\* 1000 (a rotation by two leaves two records in place), and 1000 comes first
C12_Witness ==
    /\ ret.op = "take_outbound_messages"
    /\ ret.maximum_channels = 2
    /\ Len(ret.result) = 2
    /\ ret.result[1][1] = 1000
    /\ ret.result[2][1] = 2000
    /\ Len(OutboundXcmpStatus) = 2
    /\ OutboundXcmpStatus[1].recipient = 2000

\* The call visits the record of para with room left in its budget: every record
\* ahead of it adds at most one entry to the result
ServedBy(call, para) ==
    /\ call.op = "take_outbound_messages"
    /\ ~call.panicked
    /\ Position(OutboundXcmpStatus, para) \in 1..call.maximum_channels

\* C14: when take_outbound_messages serves a peer whose record has signals_exist,
\* whose channel is Ready and whose signal page is shorter than max_size_now, the
\* one entry it returns for the peer is the signal page, whether the record is Ok
\* or Suspended; afterwards no record of the peer has signals_exist, the peer has
\* no SignalMessages entry, and its data pages and page indices are as before.
C14_SignalsFirst ==
    [][\A p \in ParaIds :
        (/\ ServedBy(ret', p)
         /\ OutboundXcmpStatus[Position(OutboundXcmpStatus, p)].signals_exist
         /\ ret'.chan[p].status = "Ready"
         /\ Len(StorageGet(SignalMessages, p)) < ret'.chan[p].max_size_now)
        => LET before == OutboundXcmpStatus[Position(OutboundXcmpStatus, p)]
               found == Position(OutboundXcmpStatus', p)
           IN /\ EntriesFor(ret'.result, p) = <<(<<p, StorageGet(SignalMessages, p)>>)>>
              /\ p \notin DOMAIN SignalMessages'
              /\ PagesOf(OutboundXcmpMessages', p) = PagesOf(OutboundXcmpMessages, p)
              /\ IF found = 0 THEN before.first_index = before.last_index
                 ELSE /\ ~OutboundXcmpStatus'[found].signals_exist
                      /\ OutboundXcmpStatus'[found].state = before.state
                      /\ OutboundXcmpStatus'[found].first_index = before.first_index
                      /\ OutboundXcmpStatus'[found].last_index = before.last_index]_vars

\* A Suspended record with two data pages gave up its signal page and kept both
C14_Witness ==
    /\ ret.op = "take_outbound_messages"
    /\ PeerSpec \in ret.taken
    /\ EntriesFor(ret.result, PeerSpec) = <<(<<PeerSpec, SuspendPage>>)>>
    /\ RecordOf(PeerSpec) # None
    /\ RecordOf(PeerSpec)[1].state = "Suspended"
    /\ ~RecordOf(PeerSpec)[1].signals_exist
    /\ QueuedPages(PeerSpec) = 2

\* C15: after a take_outbound_messages call returns, no record of the registry
\* has signals_exist, whatever maximum_channels and the channel statuses are.
C15_SignalsHandled ==
    [][(ret'.op = "take_outbound_messages" /\ ~ret'.panicked)
        => \A i \in 1..Len(OutboundXcmpStatus') : ~OutboundXcmpStatus'[i].signals_exist]_vars

\* C20: in every state, OutboundXcmpMessages holds a page under (peer, i) if and
\* only if the registry has a record of the peer with first_index <= i < last_index,
\* and no take_outbound_messages call unwraps the length of a missing page.
C20_PagesMatchIndices ==
    /\ \A key \in DOMAIN OutboundXcmpMessages :
            \E i \in 1..Len(OutboundXcmpStatus) :
                /\ OutboundXcmpStatus[i].recipient = key[1]
                /\ OutboundXcmpStatus[i].first_index <= key[2]
                /\ key[2] < OutboundXcmpStatus[i].last_index
    /\ \A i \in 1..Len(OutboundXcmpStatus) :
            PageKeys(OutboundXcmpStatus[i].recipient, OutboundXcmpStatus[i].first_index,
                     OutboundXcmpStatus[i].last_index) \subseteq DOMAIN OutboundXcmpMessages
    /\ ret.op = "take_outbound_messages" => ~ret.panicked

\* The call processed one page from sender that holds the one frame
OneFrameFrom(call, sender, frame) ==
    /\ call.op = "handle_xcmp_messages"
    /\ call.pages = <<(<<sender, frame>>)>>
    /\ call.consumed = SignalWeight

\* C21: a Resume frame for a peer whose record is Suspended removes the record
\* only if it has no data page and no pending signal; otherwise the record becomes
\* Ok with its indices and its signal flag as before. Neither OutboundXcmpMessages
\* nor SignalMessages changes.
C21_ResumeCleanup ==
    [][\A p \in ParaIds :
        (/\ OneFrameFrom(ret', p, ResumePage)
         /\ Position(OutboundXcmpStatus, p) # 0
         /\ OutboundXcmpStatus[Position(OutboundXcmpStatus, p)].state = "Suspended")
        => LET before == OutboundXcmpStatus[Position(OutboundXcmpStatus, p)]
               after == Position(OutboundXcmpStatus', p)
           IN /\ IF before.first_index = before.last_index /\ ~before.signals_exist
                 THEN after = 0
                 ELSE /\ after # 0
                      /\ OutboundXcmpStatus'[after] = [before EXCEPT !.state = "Ok"]
              /\ UNCHANGED <<OutboundXcmpMessages, SignalMessages>>]_vars

-----------------------------------------------------------------------------
(* Order of emission for one peer: every write carries a serial number as  *)
(* its one byte, two writes share a page, and the history variable holds   *)
(* the serial of the next write and the last serial that was emitted.      *)

\* Writes made in this specification
MaxWrites == 5

PeerFifo == 2 * 1000

\* A page takes the format header and two encoded one-byte fragments
ChannelInfoFifo == Some([max_message_size |-> 5, max_total_size |-> 40])

\* Ready with room for every page, Ready with room for a page of one fragment
\* only, Full and Closed
ChannelsFifo ==
    {[status |-> "Ready", max_size_now |-> 6, max_size_ever |-> 5, info |-> ChannelInfoFifo],
     [status |-> "Ready", max_size_now |-> 4, max_size_ever |-> 5, info |-> ChannelInfoFifo],
     [status |-> "Full", max_size_now |-> 0, max_size_ever |-> 5, info |-> ChannelInfoFifo],
     [status |-> "Closed", max_size_now |-> 0, max_size_ever |-> 0, info |-> None]}

\* The one-byte fragments of a ConcatenatedVersionedXcm page, in page order
RECURSIVE Serials(_)
Serials(data) ==
    IF Len(data) < 2 THEN <<>>
    ELSE <<data[2]>> \o Serials(SubSeq(data, 3, Len(data)))

\* The serials a take_outbound_messages result carries for para, in result order
RECURSIVE EmittedSerials(_, _)
EmittedSerials(result, para) ==
    IF Len(result) = 0 THEN <<>>
    ELSE (IF Head(result)[1] = para THEN Serials(Tail(Head(result)[2])) ELSE <<>>)
         \o EmittedSerials(Tail(result), para)

InitFifo == Genesis(RuntimeSmall) /\ fair = [next |-> 1, last |-> 0]

SendFifo ==
    /\ fair.next <= MaxWrites
    /\ SendFragment(PeerFifo, "ConcatenatedVersionedXcm", <<fair.next>>, ChannelInfoFifo)
    /\ fair' = [fair EXCEPT !.next = @ + 1]

TakeFifo ==
    \E maximum_channels \in 0..1, c \in ChannelsFifo :
        /\ TakeOutboundMessages(maximum_channels, [p \in ParaIds |-> c])
        /\ fair' = LET e == EmittedSerials(ret'.result, PeerFifo) IN
                   IF Len(e) = 0 THEN fair ELSE [fair EXCEPT !.last = e[Len(e)]]

NextFifo == SendFifo \/ TakeFifo

SpecFifo == InitFifo /\ [][NextFifo]_vars

\* C13: over any interleaving of send_fragment and take_outbound_messages calls,
\* what is emitted for a peer is in the order it was written: the fragments of an
\* emitted page are in write order and all of them were written after everything
\* emitted before, so pages leave oldest first and nothing is emitted twice.
C13_PerPeerFifo ==
    [][ret'.op = "take_outbound_messages" =>
        LET e == EmittedSerials(ret'.result, PeerFifo) IN
        /\ \A i \in 1..Len(e) : e[i] > fair.last /\ e[i] < fair.next
        /\ \A i \in 1..(Len(e) - 1) : e[i] < e[i + 1]]_vars

\* A page of two fragments was emitted after an older page, a younger one is queued
C13_Witness ==
    /\ ret.op = "take_outbound_messages"
    /\ Len(EmittedSerials(ret.result, PeerFifo)) = 2
    /\ EmittedSerials(ret.result, PeerFifo)[1] > 2
    /\ fair.last = EmittedSerials(ret.result, PeerFifo)[2]
    /\ QueuedPages(PeerFifo) >= 1

-----------------------------------------------------------------------------
(* Capacity: three siblings compete for a registry of two records and a    *)
(* suspended set of one peer. The history variable keeps, for the last     *)
(* on_queue_changed call, the signal page that was pending for its peer    *)
(* before the call, and the peers whose latest signal could not be sent.   *)

\* A fragment that fits a page of 4 bytes and one that does not
FragmentsCap == {<<7>>, <<7, 7, 7>>}

ChannelInfosCap == {None, Some([max_message_size |-> 4, max_total_size |-> 40])}

ChannelsCap ==
    {[status |-> "Closed", max_size_now |-> 0, max_size_ever |-> 0, info |-> None],
     [status |-> "Ready", max_size_now |-> 5, max_size_ever |-> 4, info |-> ChannelInfoSpec]}

\* ready_pages at the resume threshold, between the thresholds, at the suspend threshold
ReadyPagesCap == {8, 20, 32}

InitCap ==
    /\ Genesis(RuntimeSmall)
    /\ fair = [pending |-> <<>>, failed |-> {}, retried |-> FALSE]

SendCap ==
    \E recipient \in ParaIds, fragment \in FragmentsCap, channel_info \in ChannelInfosCap :
        /\ QueuedPages(recipient) = 0
        /\ SendFragment(recipient, "ConcatenatedVersionedXcm", fragment, channel_info)
        /\ fair' = [fair EXCEPT !.pending = <<>>, !.retried = FALSE]

QueueChangedCap ==
    \E para \in ParaIds, ready_pages \in ReadyPagesCap :
        /\ OnQueueChanged(para, ready_pages)
        /\ fair' = [pending |-> StorageGet(SignalMessages, para),
                    failed |-> IF ret'.signal = None THEN fair.failed
                               ELSE IF ret'.sent.ok THEN fair.failed \ {para}
                               ELSE fair.failed \cup {para},
                    retried |-> /\ para \in fair.failed
                                /\ ret'.signal # None
                                /\ ret'.sent.ok]

TakeCap ==
    \E maximum_channels \in 0..2, c \in ChannelsCap :
        /\ TakeOutboundMessages(maximum_channels, [p \in ParaIds |-> c])
        /\ fair' = [fair EXCEPT !.pending = <<>>, !.retried = FALSE]

NextCap == SendCap \/ QueueChangedCap \/ TakeCap

SpecCap == InitCap /\ [][NextCap]_vars

\* C16: a send_fragment call that returns an error leaves OutboundXcmpStatus,
\* OutboundXcmpMessages, SignalMessages and DeliveryFeeFactor as they were; the
\* error is TooManyChannels exactly when the channel exists, the fragment passes
\* the size check, the peer has no record and the registry holds
\* MaxActiveOutboundChannels records; and no call of any operation leaves more
\* than MaxActiveOutboundChannels records in the registry.
C16_SendErrorsChangeNothing ==
    [][/\ (ret'.op = "send_fragment" /\ ~ret'.result.ok) =>
            /\ UNCHANGED <<OutboundXcmpStatus, OutboundXcmpMessages, SignalMessages,
                           DeliveryFeeFactor>>
            /\ ret'.result.err \in {"NoChannel", "TooBig", "TooManyChannels"}
       /\ ret'.op = "send_fragment" =>
            (ret'.result = Err("TooManyChannels")
                <=> /\ ret'.channel_info # None
                    /\ Len(EncodeFragment(ret'.fragment)) + 1
                            <= Min(ret'.channel_info[1].max_message_size, MaxPageSize)
                    /\ Position(OutboundXcmpStatus, ret'.recipient) = 0
                    /\ Len(OutboundXcmpStatus) = MaxActiveOutboundChannels)
       /\ Len(OutboundXcmpStatus') <= MaxActiveOutboundChannels]_vars

\* A write was refused for want of room in a registry that holds a record made by
\* send_fragment and a record made by send_signal
C16_Witness ==
    /\ ret.op = "send_fragment"
    /\ ret.result = Err("TooManyChannels")
    /\ Len(OutboundXcmpStatus) = MaxActiveOutboundChannels
    /\ \E i, j \in 1..Len(OutboundXcmpStatus) :
            /\ OutboundXcmpStatus[i].signals_exist
            /\ OutboundXcmpStatus[j].last_index > OutboundXcmpStatus[j].first_index
    /\ Position(OutboundXcmpStatus, ret.recipient) = 0

\* The records of the registry that are not the record of para
OtherRecords(s, para) == SelectSeq(s, LAMBDA r : r.recipient # para)

\* The entries of a store with peers as keys that are not the entry of para
OtherEntries(store, para) == [k \in DOMAIN store \ {para} |-> store[k]]

\* The one-frame signal page for a signal, byte by byte
FrameOf(signal) == IF signal = "Suspend" THEN SuspendPage ELSE ResumePage

\* C17: a send_signal(peer, s) call that succeeds leaves a record of the peer with
\* signals_exist (the record it had with that one field set, or a new record in
\* state Ok without pages) and SignalMessages[peer] equal to the one frame for s,
\* whatever was pending before, and touches no other record and no other entry;
\* it succeeds unless the peer has no record and the registry is full, and then
\* it returns TooManyActiveOutboundChannels and changes neither store.
C17_SendSignal ==
    [][(ret'.op = "on_queue_changed" /\ ret'.signal # None) =>
        LET peer == ret'.para
            before == Position(OutboundXcmpStatus, peer)
            after == Position(OutboundXcmpStatus', peer)
            full == before = 0 /\ Len(OutboundXcmpStatus) = MaxActiveOutboundChannels
        IN /\ ret'.sent.ok <=> ~full
           /\ ret'.sent.ok =>
                /\ after # 0
                /\ OutboundXcmpStatus'[after] =
                        IF before # 0
                        THEN [OutboundXcmpStatus[before] EXCEPT !.signals_exist = TRUE]
                        ELSE [recipient |-> peer, state |-> "Ok", signals_exist |-> TRUE,
                              first_index |-> 0, last_index |-> 0]
                /\ OtherRecords(OutboundXcmpStatus', peer) = OtherRecords(OutboundXcmpStatus, peer)
                /\ peer \in DOMAIN SignalMessages'
                /\ SignalMessages'[peer] = FrameOf(ret'.signal[1])
                /\ OtherEntries(SignalMessages', peer) = OtherEntries(SignalMessages, peer)
           /\ full =>
                /\ ret'.sent = Err("TooManyActiveOutboundChannels")
                /\ UNCHANGED <<OutboundXcmpStatus, SignalMessages>>]_vars

\* A Resume took the place of the Suspend that was still pending for the peer
C17_Witness ==
    /\ ret.op = "on_queue_changed"
    /\ ret.signal = Some("Resume")
    /\ ret.sent.ok
    /\ fair.pending = SuspendPage
    /\ SignalMessages[ret.para] = ResumePage
    /\ OutboundXcmpStatus[Position(OutboundXcmpStatus, ret.para)].signals_exist

\* C18: on_queue_changed(peer, depth) removes a peer of InboundXcmpSuspended with
\* depth <= resume_threshold once its Resume is queued; inserts a peer outside the
\* set with depth >= suspend_threshold once its Suspend is queued, unless the set
\* holds MaxInboundSuspended peers, and then the Suspend stays queued and the set
\* is as before; in every other case no store changes. The membership of other
\* peers never changes, and the set never holds more than MaxInboundSuspended.
C18_SuspendedSet ==
    [][ret'.op = "on_queue_changed" =>
        LET peer == ret'.para
            depth == ret'.ready_pages
            set == InboundXcmpSuspended
        IN /\ IF peer \in set /\ depth <= QueueConfig.resume_threshold THEN
                    IF ret'.sent.ok
                    THEN /\ InboundXcmpSuspended' = set \ {peer}
                         /\ StorageGet(SignalMessages', peer) = ResumePage
                    ELSE InboundXcmpSuspended' = set
              ELSE IF peer \notin set /\ depth >= QueueConfig.suspend_threshold THEN
                    IF ret'.sent.ok
                    THEN /\ StorageGet(SignalMessages', peer) = SuspendPage
                         /\ InboundXcmpSuspended' =
                                IF Cardinality(set) < MaxInboundSuspended
                                THEN set \cup {peer} ELSE set
                    ELSE InboundXcmpSuspended' = set
              ELSE UNCHANGED <<InboundXcmpSuspended, OutboundXcmpStatus, SignalMessages,
                               OutboundXcmpMessages, DeliveryFeeFactor, QueueConfig>>
           /\ InboundXcmpSuspended' \ {peer} = set \ {peer}
           /\ Cardinality(InboundXcmpSuspended') <= MaxInboundSuspended]_vars

\* With the set full of another peer, a Suspend was queued for a peer that stays
\* outside the set
C18_Witness ==
    /\ ret.op = "on_queue_changed"
    /\ ret.signal = Some("Suspend")
    /\ ret.sent.ok
    /\ ret.para \notin InboundXcmpSuspended
    /\ Cardinality(InboundXcmpSuspended) = MaxInboundSuspended
    /\ StorageGet(SignalMessages, ret.para) = SuspendPage

\* C19: an on_queue_changed call whose send_signal fails leaves
\* InboundXcmpSuspended, OutboundXcmpStatus and SignalMessages as they were, so a
\* suspended peer stays in the set; and every call for a peer of the set with
\* depth <= resume_threshold attempts the Resume, which succeeds, and takes the
\* peer out of the set, as soon as the peer has a record or the registry has room.
C19_FailedSignalRetried ==
    [][ret'.op = "on_queue_changed" =>
        LET peer == ret'.para IN
        /\ (ret'.signal # None /\ ~ret'.sent.ok) =>
                UNCHANGED <<InboundXcmpSuspended, OutboundXcmpStatus, SignalMessages>>
        /\ (peer \in InboundXcmpSuspended
                /\ ret'.ready_pages <= QueueConfig.resume_threshold) =>
                /\ ret'.signal = Some("Resume")
                /\ ret'.sent.ok <=>
                        \/ Position(OutboundXcmpStatus, peer) # 0
                        \/ Len(OutboundXcmpStatus) < MaxActiveOutboundChannels
                /\ ret'.sent.ok =>
                        /\ peer \notin InboundXcmpSuspended'
                        /\ StorageGet(SignalMessages', peer) = ResumePage]_vars

\* A Resume that could not be sent while the registry was full of other peers
\* went out on a later call for the same peer
C19_Witness ==
    /\ ret.op = "on_queue_changed"
    /\ ret.signal = Some("Resume")
    /\ ret.sent.ok
    /\ fair.retried
    /\ ret.para \notin InboundXcmpSuspended
    /\ StorageGet(SignalMessages, ret.para) = ResumePage

-----------------------------------------------------------------------------
(* The top of the index range: the pallet after 2^16 - 1 writes of one     *)
(* fragment each to a peer and 2^16 - 2 takes of one page each, where the  *)
(* second write came before the first take, so that the queue was never    *)
(* empty and the indices of the record were never reset. One page is left, *)
(* and with at most two pages queued the fee factor never moved.           *)

PeerWrap == 2 * 1000

ParasWrap == {1000, 2000}

\* The page each of the writes made
PageWrap == new_page("ConcatenatedVersionedXcm", EncodeFragment(FragmentSpec))

InitWrap ==
    /\ T = RuntimeSmall
    /\ QueueConfig = DefaultQueueConfig
    /\ InboundXcmpSuspended = {}
    /\ OutboundXcmpStatus =
            <<[recipient |-> PeerWrap, state |-> "Ok", signals_exist |-> FALSE,
               first_index |-> U16 - 2, last_index |-> U16 - 1]>>
    /\ OutboundXcmpMessages = [k \in PageKeys(PeerWrap, U16 - 2, U16 - 1) |-> PageWrap]
    /\ SignalMessages = EmptyMap
    /\ DeliveryFeeFactor = [p \in ParaIds |-> DefaultFeeFactor]
    /\ ret = [op |-> "genesis"]
    /\ fair = NoHistory

SendWrap ==
    \E recipient \in ParasWrap :
        /\ SendFragment(recipient, "ConcatenatedVersionedXcm", FragmentSpec, ChannelInfoSpec)
        /\ UNCHANGED fair

TakeWrap ==
    \E maximum_channels \in 1..2, c \in ChannelsCap :
        /\ TakeOutboundMessages(maximum_channels, [p \in ParaIds |-> c])
        /\ UNCHANGED fair

NextWrap == SendWrap \/ TakeWrap

SpecWrap == InitWrap /\ [][NextWrap]_vars

-----------------------------------------------------------------------------
(* Suspension: three siblings write, send Suspend and Resume frames and    *)
(* have their pages taken, with a registry of two records.                 *)

FramesSuspend == {SuspendPage, ResumePage}

InitSuspend == Genesis(RuntimeSmall) /\ fair = NoHistory

SendSuspend ==
    \E recipient \in ParaIds :
        /\ QueuedPages(recipient) < MaxQueued
        /\ SendFragment(recipient, "ConcatenatedVersionedXcm", FragmentSpec, ChannelInfoSpec)
        /\ UNCHANGED fair

HandleSuspend ==
    \E sender \in ParaIds, frame \in FramesSuspend :
        /\ HandleXcmpMessages(<<(<<sender, frame>>)>>, SignalWeight, DownstreamSpec)
        /\ UNCHANGED fair

TakeSuspend ==
    \E maximum_channels \in 1..2, c \in ChannelsSpec :
        /\ TakeOutboundMessages(maximum_channels, [p \in ParaIds |-> c])
        /\ UNCHANGED fair

NextSuspend == SendSuspend \/ HandleSuspend \/ TakeSuspend

SpecSuspend == InitSuspend /\ [][NextSuspend]_vars

\* C22: a Suspend frame from a peer without a record adds a record in state
\* Suspended without pages and without a pending signal, or changes nothing when
\* the registry is full; the record of a peer that has one becomes, or stays,
\* Suspended with its indices and signal flag as before. No other record, no
\* page and no signal entry changes.
C22_Suspend ==
    [][\A p \in ParaIds :
        OneFrameFrom(ret', p, SuspendPage)
        => LET before == Position(OutboundXcmpStatus, p) IN
           /\ OutboundXcmpStatus' =
                IF before # 0
                THEN [OutboundXcmpStatus EXCEPT ![before].state = "Suspended"]
                ELSE IF Len(OutboundXcmpStatus) >= MaxActiveOutboundChannels
                THEN OutboundXcmpStatus
                ELSE Append(OutboundXcmpStatus,
                            [recipient |-> p, state |-> "Suspended", signals_exist |-> FALSE,
                             first_index |-> 0, last_index |-> 0])
           /\ UNCHANGED <<OutboundXcmpMessages, SignalMessages>>]_vars

\* A Suspend frame came from a peer without a record while the registry was full,
\* one of its records Suspended with a page, the other Ok with a page
C22_Witness ==
    /\ \E p \in ParaIds :
            /\ OneFrameFrom(ret, p, SuspendPage)
            /\ Position(OutboundXcmpStatus, p) = 0
    /\ Len(OutboundXcmpStatus) = MaxActiveOutboundChannels
    /\ \E i, j \in 1..Len(OutboundXcmpStatus) :
            /\ OutboundXcmpStatus[i].state = "Suspended"
            /\ OutboundXcmpStatus[i].last_index > OutboundXcmpStatus[i].first_index
            /\ OutboundXcmpStatus[j].state = "Ok"

-----------------------------------------------------------------------------
(* Writing under two limits: fragments of one and three bytes are written  *)
(* for one sibling under two channel limits, and pages are taken.          *)

PeerFormats == 2 * 1000

\* The formats send_fragment is called with: deliver, its only caller, passes
\* ConcatenatedVersionedXcm
FormatsWritten == {"ConcatenatedVersionedXcm"}

FragmentsFormats == {<<7>>, <<7, 8, 9>>}

\* Limits under which a write escalates the fee factor from the second page on
ChannelInfosFormats ==
    {Some([max_message_size |-> 4, max_total_size |-> 12]),
     Some([max_message_size |-> 9, max_total_size |-> 12])}

ChannelsFormats ==
    {[status |-> "Ready", max_size_now |-> 9, max_size_ever |-> 9,
      info |-> Some([max_message_size |-> 9, max_total_size |-> 12])],
     [status |-> "Full", max_size_now |-> 0, max_size_ever |-> 9,
      info |-> Some([max_message_size |-> 9, max_total_size |-> 12])]}

InitFormats == Genesis(RuntimeSmall) /\ fair = NoHistory

SendFormats ==
    \E format \in FormatsWritten, fragment \in FragmentsFormats,
       channel_info \in ChannelInfosFormats :
        /\ SendFragment(PeerFormats, format, fragment, channel_info)
        /\ UNCHANGED fair

TakeFormats ==
    \E c \in ChannelsFormats :
        /\ TakeOutboundMessages(1, [p \in ParaIds |-> c])
        /\ UNCHANGED fair

NextFormats == SendFormats \/ TakeFormats

SpecFormats == InitFormats /\ [][NextFormats]_vars

\* The last page queued for recipient, or <<>> when none is queued
LastPage(recipient) ==
    IF QueuedPages(recipient) > 0
    THEN StorageGet(OutboundXcmpMessages, <<recipient, NextPageIndex(recipient) - 1>>)
    ELSE <<>>

\* C23: a send_fragment call whose format differs from the format stored in the
\* peer's last queued page creates no page, modifies no page and leaves the
\* record's first_index and last_index as they were. No call meets the premise:
\* every page is written by send_fragment in the one format of FormatsWritten.
C23_MismatchDropsMessage ==
    [][(/\ ret'.op = "send_fragment"
        /\ QueuedPages(ret'.recipient) > 0
        /\ DecodeFormat(LastPage(ret'.recipient)) # ret'.format)
       => UNCHANGED <<OutboundXcmpMessages, OutboundXcmpStatus>>]_vars

\* The indices of recipient's record, both 0 for a peer without a record
IndicesOf(registry, recipient) ==
    LET found == Position(registry, recipient) IN
    IF found = 0 THEN [first_index |-> 0, last_index |-> 0]
    ELSE [first_index |-> registry[found].first_index,
          last_index |-> registry[found].last_index]

\* C24: a send_fragment call that succeeds appends the encoded fragment to the
\* peer's last page and leaves the indices alone exactly when a last page is
\* queued, its format is the format of the call and its length plus the length of
\* the encoded fragment is within the limit; otherwise it stores the format header
\* followed by the encoded fragment under last_index and adds one to last_index. It
\* returns last_index - first_index as they are after the write, and every other
\* page is as before. The indices are u16 and so is their arithmetic.
C24_AppendOrNewPage ==
    [][(ret'.op = "send_fragment" /\ ret'.result.ok) =>
        LET p == ret'.recipient
            encoded == EncodeFragment(ret'.fragment)
            before == IndicesOf(OutboundXcmpStatus, p)
            after == IndicesOf(OutboundXcmpStatus', p)
            fits == /\ QueuedPages(p) > 0
                    /\ DecodeFormat(LastPage(p)) = ret'.format
                    /\ Len(LastPage(p)) + Len(encoded) <= WriteLimit(ret')
        IN /\ IF fits
              THEN /\ after = before
                   /\ OutboundXcmpMessages' =
                        StorageInsert(OutboundXcmpMessages, <<p, before.last_index - 1>>,
                                      LastPage(p) \o encoded)
              ELSE /\ after = [before EXCEPT !.last_index = (@ + 1) % U16]
                   /\ OutboundXcmpMessages' =
                        StorageInsert(OutboundXcmpMessages, <<p, before.last_index>>,
                                      EncodeFormat(ret'.format) \o encoded)
           /\ <<p, before.last_index>> \notin DOMAIN OutboundXcmpMessages
           /\ ret'.result.value = (after.last_index - after.first_index) % U16]_vars

\* The conservative estimate of a write, from what the call returned and the
\* page it wrote last: (pages - 1) * max_message_size + last_page_size
EstimateOf(call, last_page) ==
    Max(call.result.value - 1, 0) * WriteLimit(call) + Len(last_page)

\* EstimateOf(call, last_page) > threshold over the integers, by a division so
\* that no product is formed
EstimateExceeds(call, last_page, threshold) ==
    \/ Len(last_page) > threshold
    \/ Max(call.result.value - 1, 0) > (threshold - Len(last_page)) \div WriteLimit(call)

\* C25: a send_fragment call that succeeds with an estimate above
\* max_total_size / THRESHOLD_FACTOR escalates the fee factor of its peer by one
\* step, whether or not the estimate was above the threshold before; with an
\* estimate at or below the threshold no factor changes; the factor of another
\* peer never changes.
C25_EscalationPerWrite ==
    [][(ret'.op = "send_fragment" /\ ret'.result.ok) =>
        LET p == ret'.recipient
            written == StorageGet(OutboundXcmpMessages',
                                  <<p, IndicesOf(OutboundXcmpStatus', p).last_index - 1>>)
            threshold == ret'.channel_info[1].max_total_size \div THRESHOLD_FACTOR
        IN DeliveryFeeFactor' =
            IF EstimateExceeds(ret', written, threshold)
            THEN [DeliveryFeeFactor EXCEPT
                    ![p] = Min(MaxFeeFactor, (DeliveryFeeFactor[p] * 105) \div 100)]
            ELSE DeliveryFeeFactor]_vars

\* A write escalated a factor that an earlier write had escalated already
C25_Witness ==
    /\ ret.op = "send_fragment"
    /\ ret.result.ok
    /\ ret.result.value >= 2
    /\ DeliveryFeeFactor[ret.recipient] > (DefaultFeeFactor * 105) \div 100

-----------------------------------------------------------------------------
(* Fee decay: one sibling is written pages of 5 bytes on a channel whose   *)
(* threshold is 6 bytes, suspends and resumes the channel, has signals     *)
(* queued for it, and its pages are taken.                                 *)

PeerDecay == 2 * 1000

FragmentDecay == <<7, 8, 9>>

ChannelInfoDecay == Some([max_message_size |-> 5, max_total_size |-> 12])

\* Ready for any page, Ready for a signal page only, Full, Closed
ChannelsDecay ==
    {[status |-> "Ready", max_size_now |-> 9, max_size_ever |-> 9, info |-> ChannelInfoDecay],
     [status |-> "Ready", max_size_now |-> 3, max_size_ever |-> 9, info |-> ChannelInfoDecay],
     [status |-> "Full", max_size_now |-> 0, max_size_ever |-> 9, info |-> ChannelInfoDecay],
     [status |-> "Closed", max_size_now |-> 0, max_size_ever |-> 0, info |-> None]}

InitDecay == Genesis(RuntimeSmall) /\ fair = NoHistory

SendDecay ==
    /\ SendFragment(PeerDecay, "ConcatenatedVersionedXcm", FragmentDecay, ChannelInfoDecay)
    /\ UNCHANGED fair

TakeDecay ==
    \E maximum_channels \in 0..1, c \in ChannelsDecay :
        /\ TakeOutboundMessages(maximum_channels, [p \in ParaIds |-> c])
        /\ UNCHANGED fair

HandleDecay ==
    \E frame \in FramesSuspend :
        /\ HandleXcmpMessages(<<(<<PeerDecay, frame>>)>>, SignalWeight, DownstreamSpec)
        /\ UNCHANGED fair

QueueChangedDecay ==
    \E ready_pages \in ReadyPagesSpec :
        OnQueueChanged(PeerDecay, ready_pages) /\ UNCHANGED fair

NextDecay == SendDecay \/ TakeDecay \/ HandleDecay \/ QueueChangedDecay

SpecDecay == InitDecay /\ [][NextDecay]_vars

\* The sum of the lengths of the pages stored for para
StoredSize(messages, para) ==
    SumOver(DOMAIN PagesOf(messages, para),
            [k \in DOMAIN PagesOf(messages, para) |-> Len(messages[k])])

\* C26: a take_outbound_messages call decays the fee factor of a peer by one step
\* exactly when it took a page of the peer, signal or data, and the pages left
\* for the peer sum to max_total_size / THRESHOLD_FACTOR or less; the factor of
\* every other peer, skipped or not reached, stays as it was.
C26_DecayOnTake ==
    [][(ret'.op = "take_outbound_messages" /\ ~ret'.panicked) =>
        \A p \in ParaIds :
            LET c == ret'.chan[p]
                took == /\ c.status = "Ready"
                        /\ \/ PagesOf(OutboundXcmpMessages', p) # PagesOf(OutboundXcmpMessages, p)
                           \/ p \in DOMAIN SignalMessages \ DOMAIN SignalMessages'
                max_total_size == IF c.info = None THEN MAX_POSSIBLE_ALLOCATION
                                  ELSE c.info[1].max_total_size
            IN DeliveryFeeFactor'[p] =
                IF took /\ StoredSize(OutboundXcmpMessages', p) <= max_total_size \div THRESHOLD_FACTOR
                THEN Max(MinFeeFactor, (DeliveryFeeFactor[p] * 100) \div 105)
                ELSE DeliveryFeeFactor[p]]_vars

\* A take that left one page of the peer decayed a factor that was at its highest
C26_Witness ==
    /\ ret.op = "take_outbound_messages"
    /\ Len(EntriesFor(ret.result, PeerDecay)) = 1
    /\ QueuedPages(PeerDecay) = 1
    /\ DeliveryFeeFactor[PeerDecay] = (MaxFeeFactor * 100) \div 105
    /\ DeliveryFeeFactor[PeerDecay] > MinFeeFactor

\* The sum of the lengths of the pages queued for para: the pages of the range
\* first_index..last_index of its record after the call
QueuedSize(messages, registry, para) ==
    LET keys == PageKeys(para, IndicesOf(registry, para).first_index,
                         IndicesOf(registry, para).last_index)
    IN SumOver(keys, [k \in keys |-> Len(StorageGet(messages, k))])

C28_SkippedUntouched ==
    [][(ret'.op = "take_outbound_messages" /\ ~ret'.panicked) =>
        \A p \in ParaIds :
            LET before == RecordOf(p)
                status == ret'.chan[p].status
                after == Position(OutboundXcmpStatus', p)
            IN /\ (/\ before # None
                   /\ status # "Closed"
                   /\ \/ status = "Full"
                      \/ before[1].state = "Suspended" /\ ~before[1].signals_exist)
                  => /\ EntriesFor(ret'.result, p) = <<>>
                     /\ after # 0
                     /\ OutboundXcmpStatus'[after] = before[1]
                     /\ PagesOf(OutboundXcmpMessages', p) = PagesOf(OutboundXcmpMessages, p)
                     /\ (p \in DOMAIN SignalMessages') = (p \in DOMAIN SignalMessages)
                     /\ StorageGet(SignalMessages', p) = StorageGet(SignalMessages, p)
               /\ (before # None /\ before[1].state = "Suspended")
                  => \A i \in 1..Len(ret'.result) :
                        ret'.result[i][1] = p
                            => /\ before[1].signals_exist
                               /\ ret'.result[i][2] = StorageGet(SignalMessages, p)]_vars

\* C29: every record of the registry has first_index <= last_index, and a
\* record whose indices are equal has both at 0.
C29_EmptyRangeAtZero ==
    \A i \in 1..Len(OutboundXcmpStatus) :
        /\ OutboundXcmpStatus[i].first_index <= OutboundXcmpStatus[i].last_index
        /\ OutboundXcmpStatus[i].first_index = OutboundXcmpStatus[i].last_index
            => OutboundXcmpStatus[i].first_index = 0

\* C30: no record of the registry has first_index = last_index and state Ok.
C30_EmptyIsNotOk ==
    \A i \in 1..Len(OutboundXcmpStatus) :
        OutboundXcmpStatus[i].first_index = OutboundXcmpStatus[i].last_index
            => OutboundXcmpStatus[i].state # "Ok"

\* The recipients of a registry, in its order
RecipientsOf(registry) == [i \in 1..Len(registry) |-> registry[i].recipient]

\* C31: after a take_outbound_messages call, every record left in the registry
\* from which the call emitted a page stands after every record left in the
\* registry from which it emitted none, and the records left are in the cyclic
\* order they had before the call.
C31_ProcessedToEnd ==
    [][(ret'.op = "take_outbound_messages" /\ ~ret'.panicked) =>
        LET after == RecipientsOf(OutboundXcmpStatus')
            left == {after[i] : i \in 1..Len(after)}
            kept == SelectSeq(RecipientsOf(OutboundXcmpStatus), LAMBDA p : p \in left)
        IN /\ \A i, j \in 1..Len(after) :
                (/\ after[i] \in EmittedTo(ret'.result)
                 /\ after[j] \notin EmittedTo(ret'.result)) => j < i
           /\ \E mid \in 0..Len(kept) :
                after = SubSeq(kept, mid + 1, Len(kept)) \o SubSeq(kept, 1, mid)]_vars

-----------------------------------------------------------------------------
(* Inbound processing on its own: invocations of handle_xcmp_messages with  *)
(* one or two pages from two siblings, at budgets that run out before the   *)
(* surcharge, after it, after the decoding of an item and not at all, and   *)
(* with a downstream queue that has room for three bytes or for six.  The    *)
(* pallet starts after one write to the second sibling, so that a Resume    *)
(* finds a record that holds a page.                                        *)

PeerInbound == 2 * 1000

\* Signal pages (the second a Resume, an undecodable frame and a Suspend), payload
\* pages of one item and of two items, a blob page and a page with an unknown
\* format
FirstPagesInbound ==
    {SuspendPage, <<2, 1, 5, 0>>, <<0, 4, 7>>, <<0, 4, 7, 4, 8>>, <<1, 4, 7>>, <<9>>}

\* A Suspend, and a payload page of one empty item
SecondPagesInbound == {SuspendPage, <<0, 0>>}

SendersInbound == {1000, PeerInbound}

WeightsInbound == {1, 2, 4, 20}

DownstreamsInbound ==
    {[first_page_pos |-> 0, room |-> 3], [first_page_pos |-> 1, room |-> 6]}

InitInbound ==
    /\ T = RuntimeSmall
    /\ QueueConfig = DefaultQueueConfig
    /\ InboundXcmpSuspended = {}
    /\ OutboundXcmpStatus =
            <<[recipient |-> PeerInbound, state |-> "Ok", signals_exist |-> FALSE,
               first_index |-> 0, last_index |-> 1]>>
    /\ OutboundXcmpMessages = [k \in {<<PeerInbound, 0>>} |-> PageWrap]
    /\ SignalMessages = EmptyMap
    /\ DeliveryFeeFactor = [p \in ParaIds |-> DefaultFeeFactor]
    /\ ret = [op |-> "genesis"]
    /\ fair = NoHistory

HandleInbound ==
    \E first \in FirstPagesInbound, max_weight \in WeightsInbound,
       downstream \in DownstreamsInbound,
       more \in {<<>>} \cup {<<(<<sender, page>>)>> :
                                sender \in SendersInbound, page \in SecondPagesInbound} :
        /\ HandleXcmpMessages(<<(<<PeerInbound, first>>)>> \o more, max_weight, downstream)
        /\ UNCHANGED fair

NextInbound == HandleInbound

SpecInbound == InitInbound /\ [][NextInbound]_vars

-----------------------------------------------------------------------------
(* Payload pages on their own: invocations with one ConcatenatedVersionedXcm *)
(* page of the second sibling, either a short page (items that decode, an    *)
(* undecodable item in the middle or at the end, an empty item) or a page    *)
(* of XCM_BATCH_SIZE + 1 items, at budgets and downstream rooms that let all *)
(* of the page through or stop it part of the way.                           *)

PagesPayload ==
    {<<0, 4, 7>>, <<0, 4, 7, 4, 8>>, <<0, 4, 7, 4, 8, 0>>, <<0, 4, 7, 3, 4, 8>>,
     <<0, 3>>, <<0>>}

WeightsPayload == {2, 4, 5, 6, 7, 20}

DownstreamsPayload ==
    {[first_page_pos |-> 0, room |-> 3], [first_page_pos |-> 0, room |-> 6],
     [first_page_pos |-> 1, room |-> 6]}

\* A page of XCM_BATCH_SIZE + 1 empty items
PageBatches == <<0>> \o [i \in 1..(XCM_BATCH_SIZE + 1) |-> 0]

\* Budgets for all of the items of PageBatches and for some of them
WeightsBatches == {3 * XCM_BATCH_SIZE, 2 * XCM_BATCH_SIZE, XCM_BATCH_SIZE}

DownstreamsBatches ==
    {[first_page_pos |-> 0, room |-> 2 * XCM_BATCH_SIZE],
     [first_page_pos |-> 0, room |-> XCM_BATCH_SIZE]}

HandlePayload ==
    \E page \in PagesPayload, max_weight \in WeightsPayload,
       downstream \in DownstreamsPayload :
        /\ HandleXcmpMessages(<<(<<PeerInbound, page>>)>>, max_weight, downstream)
        /\ UNCHANGED fair

HandleBatches ==
    \E max_weight \in WeightsBatches, downstream \in DownstreamsBatches :
        /\ HandleXcmpMessages(<<(<<PeerInbound, PageBatches>>)>>, max_weight, downstream)
        /\ UNCHANGED fair

NextBatches == HandlePayload \/ HandleBatches

SpecBatches == InitInbound /\ [][NextBatches]_vars

\* C32: the weight a handle_xcmp_messages call returns is within the max_weight
\* it was given.
C32_WithinBudget ==
    ret.op = "handle_xcmp_messages" => ret.consumed <= ret.max_weight

\* C33: in a handle_xcmp_messages call, after a page in which a charge was refused
\* for lack of budget, no later page has a message enqueued, and when no signal
\* was applied up to that page the registry is as it was before the call.
C33_ExhaustionHalts ==
    [][ret'.op = "handle_xcmp_messages" =>
        \A i \in 1..Len(ret'.log) :
            ret'.log[i].starved
                => /\ \A j \in (i + 1)..Len(ret'.log) : ret'.log[j].accepted = 0
                   /\ (\A k \in 1..i : ret'.log[k].signals = 0)
                        => UNCHANGED OutboundXcmpStatus]_vars

\* The items of a payload that decode, up to its first undecodable item: what the
\* decoding loop yields when neither the batch size nor the meter stops it
DecodableItems(data) ==
    take_first_concatenated_xcms(data, Len(data) + 1,
                                 [limit |-> (Len(data) + 1) * TakeFirstWeight, consumed |-> 0],
                                 <<>>).batch

\* The items of the ConcatenatedVersionedXcm pages of a sender that decode, page
\* after page
RECURSIVE DeliveredBy(_, _)
DeliveredBy(pages, sender) ==
    IF Len(pages) = 0 THEN <<>>
    ELSE (IF /\ Head(pages)[1] = sender
             /\ DecodeFormat(Head(pages)[2]) = "ConcatenatedVersionedXcm"
          THEN DecodableItems(Tail(Head(pages)[2])) ELSE <<>>)
         \o DeliveredBy(Tail(pages), sender)

\* The messages of a call enqueued for a sender
EnqueuedFor(call, sender) ==
    LET entries == SelectSeq(call.enqueued, LAMBDA m : m[1] = sender)
    IN [i \in 1..Len(entries) |-> entries[i][2]]

\* s is a prefix of t
IsPrefix(s, t) == Len(s) <= Len(t) /\ s = SubSeq(t, 1, Len(s))

\* C34: in a handle_xcmp_messages call in which no charge was refused for lack of
\* budget, the messages enqueued for a peer are a prefix of the items the peer
\* delivered in the call, and once a page of the peer had a batch of which the
\* downstream queue took less than the whole, no later page of the peer has a
\* message enqueued.
C34_RejectedBatchStopsPeer ==
    (/\ ret.op = "handle_xcmp_messages"
     /\ \A i \in 1..Len(ret.log) : ~ret.log[i].starved) =>
        \A p \in ParaIds :
            /\ IsPrefix(EnqueuedFor(ret, p), DeliveredBy(ret.pages, p))
            /\ \A i, j \in 1..Len(ret.log) :
                (/\ i < j
                 /\ ret.pages[i][1] = p
                 /\ ret.pages[j][1] = p
                 /\ ret.log[i].batches # <<>>
                 /\ ret.log[i].accepted
                        < Len(ret.log[i].batches[Len(ret.log[i].batches)])
                          + XCM_BATCH_SIZE * (Len(ret.log[i].batches) - 1))
                    => ret.log[j].accepted = 0

\* The positions of the ConcatenatedVersionedXcm pages of a sender in a call
PayloadPagesOf(call, sender) ==
    {i \in 1..Len(call.pages) :
        /\ call.pages[i][1] = sender
        /\ DecodeFormat(call.pages[i][2]) = "ConcatenatedVersionedXcm"}

\* C35: in a handle_xcmp_messages call the surcharge is charged for no page but
\* the first payload page of a peer, and a peer has a message enqueued only if
\* the surcharge was charged for a page of it.
C35_SurchargeOncePerPeer ==
    ret.op = "handle_xcmp_messages" =>
        \A p \in ParaIds :
            /\ \A i \in 1..Len(ret.log) :
                (ret.pages[i][1] = p /\ ret.log[i].charged)
                    => /\ i \in PayloadPagesOf(ret, p)
                       /\ \A j \in PayloadPagesOf(ret, p) : i <= j
            /\ EnqueuedFor(ret, p) # <<>>
                => \E i \in PayloadPagesOf(ret, p) : ret.log[i].charged

\* What a run of signal frames makes of the record of their sender: rec is the
\* record or None, budget the weight left, others the number of other records
RECURSIVE AfterFrames(_, _, _, _)
AfterFrames(rec, frames, budget, others) ==
    IF Len(frames) = 0 \/ budget < SignalWeight \/ Head(frames) \notin {0, 1} THEN rec
    ELSE AfterFrames(
            IF Head(frames) = 0
            THEN IF rec # None THEN Some([rec[1] EXCEPT !.state = "Suspended"])
                 ELSE IF others < T.MaxActiveOutboundChannels
                 THEN Some([recipient |-> 0, state |-> "Suspended", signals_exist |-> FALSE,
                            first_index |-> 0, last_index |-> 0])
                 ELSE None
            ELSE IF rec = None \/ rec[1].first_index = rec[1].last_index THEN None
                 ELSE Some([rec[1] EXCEPT !.state = "Ok"]),
            Tail(frames), budget - SignalWeight, others)

\* The record of para in a registry with its recipient blanked, or None
BlankRecord(registry, para) ==
    LET found == Position(registry, para) IN
    IF found = 0 THEN None ELSE Some([registry[found] EXCEPT !.recipient = 0])

\* C36: a handle_xcmp_messages call changes nothing but the registry, and in the
\* registry only records of peers from whose Signals pages it applied a signal.
\* When the first page is the one Signals page of its sender, the record of the
\* sender is what its frames make of it one after the other, up to the first
\* undecodable frame or the end of the budget.  A first page with an unknown
\* format or of the blob format is passed over: the call does what it does
\* without that page.
C36_SignalsPage ==
    [][ret'.op = "handle_xcmp_messages" =>
        LET pages == ret'.pages
            first == pages[1]
            format == DecodeFormat(first[2])
        IN /\ UNCHANGED <<InboundXcmpSuspended, OutboundXcmpMessages, SignalMessages,
                          DeliveryFeeFactor, QueueConfig>>
           /\ \A q \in ParaIds :
                (\A i \in 1..Len(pages) : pages[i][1] = q => ret'.log[i].signals = 0)
                    => BlankRecord(OutboundXcmpStatus', q) = BlankRecord(OutboundXcmpStatus, q)
           /\ (/\ format = "Signals"
               /\ \A i \in 2..Len(pages) :
                    pages[i][1] = first[1] => DecodeFormat(pages[i][2]) # "Signals")
                => BlankRecord(OutboundXcmpStatus', first[1])
                    = AfterFrames(BlankRecord(OutboundXcmpStatus, first[1]), Tail(first[2]),
                                  ret'.max_weight,
                                  Len(OtherRecords(OutboundXcmpStatus, first[1])))
           /\ format \in {"Err", "ConcatenatedEncodedBlob"}
                => LET rest == handle_xcmp_messages(Tail(pages), ret'.max_weight,
                                                    ret'.downstream)
                   IN /\ OutboundXcmpStatus' = rest.s
                      /\ ret'.enqueued = rest.enqueued
                      /\ ret'.consumed = rest.meter.consumed
                      /\ ret'.log[1] = NoNote]_vars

\* A Resume was applied and the Suspend behind an undecodable frame was not
C36_Witness ==
    /\ ret.op = "handle_xcmp_messages"
    /\ ret.pages = <<(<<PeerInbound, <<2, 1, 5, 0>> >>)>>
    /\ ret.max_weight = 20
    /\ ret.log[1].signals = 1
    /\ ret.consumed = 2 * SignalWeight
    /\ RecordOf(PeerInbound) # None
    /\ RecordOf(PeerInbound)[1].state = "Ok"

\* The items of a sequence of batches, one after the other
RECURSIVE Flatten(_)
Flatten(batches) ==
    IF Len(batches) = 0 THEN <<>> ELSE Head(batches) \o Flatten(Tail(batches))

\* What the pages from page i on put into the downstream queue, by their notes:
\* of every page the first `accepted` items of the batches handed on
RECURSIVE AcceptedFrom(_, _)
AcceptedFrom(call, i) ==
    IF i > Len(call.pages) THEN <<>>
    ELSE LET items == Flatten(call.log[i].batches)
         IN [k \in 1..call.log[i].accepted |-> <<call.pages[i][1], items[k]>>]
            \o AcceptedFrom(call, i + 1)

\* C37: the batches a handle_xcmp_messages call hands on from a
\* ConcatenatedVersionedXcm page hold, in page order, the first of the items of
\* the page that decode; no batch has more than XCM_BATCH_SIZE items and every
\* batch but the last has exactly XCM_BATCH_SIZE.  What is enqueued is the front
\* of what was handed on.  When no charge was refused and the downstream queue
\* took every item handed to it, every item ahead of the first that does not
\* decode was handed on, the ones of an unfinished batch included.
C37_BatchesArePrefix ==
    ret.op = "handle_xcmp_messages" =>
        /\ ret.enqueued = AcceptedFrom(ret, 1)
        /\ \A i \in 1..Len(ret.pages) :
            LET batches == ret.log[i].batches
                items == Flatten(batches)
                decodable == DecodableItems(Tail(ret.pages[i][2]))
            IN /\ batches # <<>> => DecodeFormat(ret.pages[i][2]) = "ConcatenatedVersionedXcm"
               /\ IsPrefix(items, decodable)
               /\ ret.log[i].accepted <= Len(items)
               /\ \A b \in 1..Len(batches) :
                    /\ Len(batches[b]) \in 1..XCM_BATCH_SIZE
                    /\ b < Len(batches) => Len(batches[b]) = XCM_BATCH_SIZE
               /\ (/\ DecodeFormat(ret.pages[i][2]) = "ConcatenatedVersionedXcm"
                   /\ \A k \in 1..i : ~ret.log[k].starved
                   /\ ret.log[i].accepted = Len(items))
                    => items = decodable

\* A page of XCM_BATCH_SIZE + 1 items went on as a batch of XCM_BATCH_SIZE and a
\* batch of one
C37_Witness ==
    /\ ret.op = "handle_xcmp_messages"
    /\ ret.pages = <<(<<PeerInbound, PageBatches>>)>>
    /\ Len(ret.log[1].batches) = 2
    /\ Len(ret.log[1].batches[1]) = XCM_BATCH_SIZE
    /\ Len(ret.log[1].batches[2]) = 1
    /\ Len(ret.enqueued) = XCM_BATCH_SIZE + 1

\* The item ahead of an item that does not decode was handed on and enqueued, and
\* the item behind it was not
C37_PartialForwarded ==
    /\ ret.op = "handle_xcmp_messages"
    /\ ret.pages = <<(<<PeerInbound, <<0, 4, 7, 3, 4, 8>> >>)>>
    /\ ret.log[1].batches = <<(<<EncodeFragment(<<7>>)>>)>>
    /\ ret.enqueued = <<(<<PeerInbound, EncodeFragment(<<7>>)>>)>>

-----------------------------------------------------------------------------
(* Backpressure over time: depth callbacks for three siblings and a        *)
(* suspended set of one peer, with the outbound pass that lets queued      *)
(* signals leave. The history variable keeps, for every peer, the signal   *)
(* that on_queue_changed queued for it last.                               *)

InitAlternate ==
    /\ Genesis(RuntimeSmall)
    /\ fair = [last |-> [p \in ParaIds |-> None]]

QueueChangedAlternate ==
    \E para \in ParaIds, ready_pages \in ReadyPagesCap :
        /\ OnQueueChanged(para, ready_pages)
        /\ fair' = IF ret'.signal # None /\ ret'.sent.ok
                   THEN [fair EXCEPT !.last[para] = ret'.signal]
                   ELSE fair

TakeAlternate ==
    \E maximum_channels \in 0..2, c \in ChannelsCap :
        /\ TakeOutboundMessages(maximum_channels, [p \in ParaIds |-> c])
        /\ UNCHANGED fair

NextAlternate == QueueChangedAlternate \/ TakeAlternate

SpecAlternate == InitAlternate /\ [][NextAlternate]_vars

\* C38: the signal on_queue_changed queues for a peer is never the signal it
\* queued for that peer last, the first one is a Suspend, and a peer is in
\* InboundXcmpSuspended exactly when the last signal queued for it is a Suspend
C38_SignalsAlternate ==
    [][/\ (ret'.op = "on_queue_changed" /\ ret'.signal # None /\ ret'.sent.ok) =>
            /\ fair.last[ret'.para] # ret'.signal
            /\ fair.last[ret'.para] = None => ret'.signal = Some("Suspend")
       /\ \A p \in ParaIds :
            p \in InboundXcmpSuspended' <=> fair'.last[p] = Some("Suspend")]_vars

\* C39: no send_fragment call overflows a page index: the call does not panic,
\* and when it succeeds last_index is the one of before or one more, below 2^16,
\* first_index <= last_index holds for the record of the recipient, and the
\* number of pages returned is the number of pages stored for the recipient.
C39_IndicesNeverOverflow ==
    [][ret'.op = "send_fragment" =>
        /\ ~ret'.panicked
        /\ ret'.result.ok =>
            LET before == IndicesOf(OutboundXcmpStatus, ret'.recipient)
                after == IndicesOf(OutboundXcmpStatus', ret'.recipient)
            IN /\ after.last_index \in {before.last_index, before.last_index + 1}
               /\ after.last_index < U16
               /\ after.first_index <= after.last_index
               /\ ret'.result.value
                    = Cardinality(DOMAIN PagesOf(OutboundXcmpMessages', ret'.recipient))]_vars

\* C40: in every state SignalMessages holds a non-empty page for a peer exactly
\* when the registry has a record of the peer with signals_exist
C40_SignalBookkeeping ==
    \A p \in ParaIds :
        (p \in DOMAIN SignalMessages /\ Len(SignalMessages[p]) > 0)
            <=> \E i \in 1..Len(OutboundXcmpStatus) :
                    /\ OutboundXcmpStatus[i].recipient = p
                    /\ OutboundXcmpStatus[i].signals_exist

-----------------------------------------------------------------------------
(* A long queue on a wide channel: a runtime with pages of up to 2^24      *)
(* bytes and a sibling with LongQueue + 1 pages queued, written while its  *)
(* channel took messages of 4 bytes. The channel now takes messages of    *)
(* 2^24 bytes, so that the size estimate of a write, LongQueue pages       *)
(* counted as full, is 2^32 and more.                                      *)

PeerEstimate == 2 * 1000

RuntimeEstimate ==
    [MaxActiveOutboundChannels |-> 2, MaxInboundSuspended |-> 1,
     MaxPageSize |-> 2 ^ 24, MaxXcmpMessageLen |-> 4]

\* The channel as it is now, with thresholds of 2^24 and 2^30 bytes, and as it was
ChannelInfosEstimate ==
    {Some([max_message_size |-> 2 ^ 24, max_total_size |-> 2 ^ 25]),
     Some([max_message_size |-> 2 ^ 24, max_total_size |-> 2 ^ 30 + 2 ^ 30 - 1]),
     Some([max_message_size |-> 4, max_total_size |-> 2 ^ 25])}

\* Writes stop at a last page of this length
PageCapEstimate == 2 * 4

InitEstimate ==
    /\ T = RuntimeEstimate
    /\ QueueConfig = DefaultQueueConfig
    /\ InboundXcmpSuspended = {}
    /\ OutboundXcmpStatus =
            <<[recipient |-> PeerEstimate, state |-> "Ok", signals_exist |-> FALSE,
               first_index |-> 0, last_index |-> LongQueue + 1]>>
    /\ OutboundXcmpMessages = [k \in PageKeys(PeerEstimate, 0, LongQueue + 1) |-> PageWrap]
    /\ SignalMessages = EmptyMap
    /\ DeliveryFeeFactor = [p \in ParaIds |-> DefaultFeeFactor]
    /\ ret = [op |-> "genesis"]
    /\ fair = NoHistory

SendEstimate ==
    \E format \in FormatsWritten, fragment \in FragmentsFormats,
       channel_info \in ChannelInfosEstimate :
        /\ QueuedPages(PeerEstimate) <= LongQueue + 2
        /\ Len(LastPage(PeerEstimate)) < PageCapEstimate
        /\ SendFragment(PeerEstimate, format, fragment, channel_info)
        /\ UNCHANGED fair

NextEstimate == SendEstimate

SpecEstimate == InitEstimate /\ [][NextEstimate]_vars

-----------------------------------------------------------------------------
(* The fee factor written from outside: FeeTracker::set_fee_factor is a    *)
(* public method of the pallet, and a caller may store any factor, below   *)
(* the minimum too, between the writes and takes of a sibling.             *)

\* One call of FeeTracker::set_fee_factor(id, val)
SetFeeFactor(id, val) ==
    /\ DeliveryFeeFactor' = set_fee_factor(DeliveryFeeFactor, id, val)
    /\ ret' = [op |-> "set_fee_factor", id |-> id, val |-> val]
    /\ UNCHANGED <<T, QueueConfig, InboundXcmpSuspended, OutboundXcmpStatus,
                   OutboundXcmpMessages, SignalMessages>>

\* Factors a caller stores: zero, the minimum and a value between two steps
FactorsSet == {0, MinFeeFactor, MinFeeFactor + 7}

InitFeeTracker == InitPages

SetFeeTracker ==
    \E val \in FactorsSet :
        /\ SetFeeFactor(PeerPages, val)
        /\ UNCHANGED fair

NextFeeTracker == SetFeeTracker \/ SendPages \/ TakePages

SpecFeeTracker == InitFeeTracker /\ [][NextFeeTracker]_vars

=============================================================================
